---- MODULE Spec2Model ----
(***************************************************************************)
(* Keeper engine of the Linkora DEX SDK: the liquidation predicate, the    *)
(* order scan and the keeper cycle drivers, against a remote ledger that   *)
(* competing keepers change concurrently.                                  *)
(*                                                                         *)
(* Further specifications share the module:                                   *)
(*   SpecLiq   the liquidation predicates as pure functions of a position  *)
(*   SpecScan  the order scans as pure functions of a ledger snapshot      *)
(*   Spec      the keeper cycle drivers running against the ledger         *)
(*   SpecSeq   the KeeperModule drivers with one cycle at a time           *)
(*   SpecHang  SpecSeq against a ledger that may never answer              *)
(*   SpecBatch the keeper service loop and calls of executeKeeperBatch     *)
(*   SpecPrices the batch price updates as functions of their arguments    *)
(*   SpecCalc  the Calculator's fee, price impact and slippage bounds      *)
(*   SpecAmm   the Calculator's amount out and amount in                   *)
(*   SpecRetry one call of a bounded-retry helper                          *)
(*   SpecGuard the minimum-output guard of a swap or an order              *)
(*   SpecSwitch startKeeper and stopKeeper called in any order             *)
(*   SpecModule initialize, operations and dispose of one module           *)
(*   SpecEvents EventModule's subscriptions                                *)
(*   SpecCache EventModule's event cache                                   *)
(*   SpecWatcher one price watcher of createPriceWatcher                   *)
(***************************************************************************)
EXTENDS Integers, Sequences, FiniteSets, TLC

(***************************************************************************)
(* Bounds of the model.                                                    *)
(***************************************************************************)
\* Prices range over 0..MaxPrice whole price units.
MaxPrice == 100
\* Number of orders on the ledger in the scan specification.
ScanTotalOrders == 3
\* Orders and positions on the ledger the keeper runs against.
NumOrders == 2
NumPositions == 1
\* Ticks of the cycle driver that are followed.
MaxCycles == 2
\* Reads of one kind that fail during one scan of the keeper.
MaxFaults == 1
\* Largest maxOperations a call of executeKeeperBatch is given.
MaxOperations == 1
\* Largest number of tokens handed to one batch price update.
MaxTokens == 11
\* Amounts, reserves and percentages handed to the Calculator are up to
\* MaxUnits units of each scale.
MaxUnits == 2
\* Listeners EventModule.createSubscription registers.
MaxSubscriptions == 3
\* Calls of EventModule.cacheEvents that are followed.
MaxCalls == 3
\* Ticks of a price watcher that are followed.
MaxTicks == 3
\* Largest maxRetries a retry helper is called with.
MaxRetries == 4

(***************************************************************************)
(* Program constants.                                                      *)
(***************************************************************************)
\* shouldLiquidate = pnlPercent <= -80
LiquidationPnlPercent == 80

VARIABLES
    liqIn,      \* the position handed to the liquidation predicates
    liqOut,     \* <<>>, then <<what each implementation of the predicate answered>>
    scanIn,     \* the ledger snapshot and the reads that fail during a scan
    scanOut,    \* <<>>, then <<what each implementation of the scan returned>>
    callIn,     \* the arguments of the helper call under evaluation
    callOut,    \* <<>>, then <<what the call did and returned>>; of a retry
                \* helper, <<how far the call has run>>
    \* the ledger
    paused,     \* isSystemPaused()
    executed,   \* order id -> its executed flag
    ready,      \* order id -> shouldExecuteOrder(id)
    isOpen,     \* position id -> its isOpen flag
    posData,    \* position id -> entry price, oracle price, position type
    \* the keeper process
    driver,     \* which cycle driver runs the keeper
    isRunning,  \* KeeperModule.isRunning
    timer,      \* the 'mainCycle' interval is set
    cycle,      \* ticks so far (cycleCounter / cycle)
    mainPc,     \* the driver's loop: "sleep", "await" (Promise.all) or "exited"
    stats,      \* KeeperModule.stats
    localStats, \* the stats object of examples/keeper.js
    task,       \* the coroutines of the driver, see Fresh
    seen        \* ids the keeper has observed settled in one of its scans

liqVars == <<liqIn, liqOut>>
scanVars == <<scanIn, scanOut>>
callVars == <<callIn, callOut>>
pureVars == <<liqIn, liqOut, scanIn, scanOut, callIn, callOut>>
ledgerVars == <<paused, executed, ready, isOpen, posData>>
keeperVars == <<driver, isRunning, timer, cycle, mainPc, stats, localStats, task, seen>>
vars == <<liqIn, liqOut, scanIn, scanOut, callIn, callOut, paused, executed, ready, isOpen, posData,
          driver, isRunning, timer, cycle, mainPc, stats, localStats, task, seen>>

(***************************************************************************)
(* JavaScript numbers.  Prices are whole price units, so formatFromWei     *)
(* followed by parseFloat yields the same value exactly; a quotient is     *)
(* kept as the fraction n/d (d > 0) and the IEEE special values a division *)
(* by zero produces are kept apart.  For operands up to MaxPrice the       *)
(* rounded double quotient compares to -80 as the exact fraction does.     *)
(***************************************************************************)
FNum(n, d) == [k |-> "num", n |-> n, d |-> d]
FPosInf == [k |-> "inf", n |-> 1, d |-> 0]
FNegInf == [k |-> "ninf", n |-> -1, d |-> 0]
FNaN == [k |-> "nan", n |-> 0, d |-> 0]

\* a / b for integer-valued doubles a, b with b >= 0
FDiv(a, b) ==
    IF b # 0 THEN FNum(a, b)
    ELSE IF a > 0 THEN FPosInf
    ELSE IF a < 0 THEN FNegInf
    ELSE FNaN

\* x * m for a positive integer m
FMul(x, m) == IF x.k = "num" THEN FNum(x.n * m, x.d) ELSE x

\* x <= m for an integer m; every comparison with NaN is false
FLeq(x, m) ==
    CASE x.k = "num" -> x.n <= m * x.d
      [] x.k = "ninf" -> TRUE
      [] OTHER -> FALSE

\* x < 0
FNegative(x) ==
    CASE x.k = "num" -> x.n < 0
      [] x.k = "ninf" -> TRUE
      [] OTHER -> FALSE

\* Math.abs(x) >= m
FAbsGeq(x, m) ==
    CASE x.k = "num" -> (IF x.n < 0 THEN -x.n ELSE x.n) >= m * x.d
      [] x.k \in {"inf", "ninf"} -> TRUE
      [] OTHER -> FALSE

(***************************************************************************)
(* Arithmetic of JavaScript numbers on fractions.  A finite number is the  *)
(* fraction n/d in lowest terms with d > 0; the computation is exact, a    *)
(* double differs from it by a relative 2^-52 per operation, which the     *)
(* rounding to 6 (2) decimals hides except at an exact tie.  -0 is 0.      *)
(***************************************************************************)
AbsInt(n) == IF n < 0 THEN -n ELSE n

RECURSIVE Gcd(_, _)
Gcd(a, b) == IF b = 0 THEN a ELSE Gcd(b, a % b)

\* n/d in lowest terms, d # 0
Frac(n, d) ==
    LET g == Gcd(AbsInt(n), AbsInt(d))
    IN IF d < 0 THEN FNum(-(n \div g), -(d \div g)) ELSE FNum(n \div g, d \div g)

Whole(n) == FNum(n, 1)

IsNum(x) == x.k = "num"
IsNaN(x) == x.k = "nan"
\* -1, 0 or 1
Sign(x) == IF x.n > 0 THEN 1 ELSE IF x.n < 0 THEN -1 ELSE 0
Signed(s) == IF s > 0 THEN FPosInf ELSE FNegInf

\* x * y
Times(x, y) ==
    IF IsNaN(x) \/ IsNaN(y) THEN FNaN
    ELSE IF IsNum(x) /\ IsNum(y)
    THEN LET g == Gcd(AbsInt(x.n), y.d)
             h == Gcd(AbsInt(y.n), x.d)
         IN Frac((x.n \div g) * (y.n \div h), (x.d \div h) * (y.d \div g))
    ELSE IF Sign(x) = 0 \/ Sign(y) = 0 THEN FNaN
    ELSE Signed(Sign(x) * Sign(y))

\* x / y
Over(x, y) ==
    IF IsNaN(x) \/ IsNaN(y) THEN FNaN
    ELSE IF ~IsNum(y) THEN (IF IsNum(x) THEN Whole(0) ELSE FNaN)
    ELSE IF y.n = 0 THEN (IF Sign(x) = 0 THEN FNaN ELSE Signed(Sign(x)))
    ELSE Times(x, Frac(y.d, y.n))

\* x + y
Plus(x, y) ==
    IF IsNaN(x) \/ IsNaN(y) THEN FNaN
    ELSE IF IsNum(x) /\ IsNum(y)
    THEN LET g == Gcd(x.d, y.d)
         IN Frac(x.n * (y.d \div g) + y.n * (x.d \div g), (x.d \div g) * y.d)
    ELSE IF ~IsNum(x) /\ ~IsNum(y) THEN (IF x = y THEN x ELSE FNaN)
    ELSE IF IsNum(x) THEN y ELSE x

Negate(x) ==
    CASE IsNum(x) -> FNum(-x.n, x.d)
      [] x.k = "inf" -> FNegInf
      [] x.k = "ninf" -> FPosInf
      [] OTHER -> FNaN

Minus(x, y) == Plus(x, Negate(y))

\* Math.abs(x)
MathAbs(x) == IF Sign(x) < 0 THEN Negate(x) ELSE x

\* x === y, x < y, x >= y; every comparison with NaN is false
Same(x, y) == ~IsNaN(x) /\ ~IsNaN(y) /\ x = y
Less(x, y) ==
    IF IsNaN(x) \/ IsNaN(y) THEN FALSE
    ELSE IF IsNum(x) /\ IsNum(y)
    THEN IF x.n \div x.d # y.n \div y.d
         THEN x.n \div x.d < y.n \div y.d
         ELSE Sign(Minus(x, y)) < 0
    ELSE IF IsNum(x) THEN y.k = "inf"
    ELSE IF IsNum(y) THEN x.k = "ninf"
    ELSE x.k = "ninf" /\ y.k = "inf"
AtLeast(x, y) == Less(y, x) \/ Same(x, y)

RECURSIVE Pow10(_)
Pow10(digits) == IF digits = 0 THEN 1 ELSE 10 * Pow10(digits - 1)

\* The first digits decimals of r/d for 0 <= r < d, as an integer, and the
\* remainder left, by long division.
RECURSIVE Decimals(_, _, _, _)
Decimals(r, d, digits, acc) ==
    IF digits = 0 THEN <<acc, r>>
    ELSE Decimals((r * 10) % d, d, digits - 1, acc * 10 + (r * 10) \div d)

\* Number.prototype.toFixed(digits) and parseFloat of its string: x rounded
\* to digits decimals, a tie away from zero; "NaN" and "Infinity" stay.
ToFixed(x, digits) ==
    IF ~IsNum(x) THEN x
    ELSE LET n == AbsInt(x.n)
             dec == Decimals(n % x.d, x.d, digits, 0)
             up == IF 2 * dec[2] >= x.d THEN 1 ELSE 0
             units == (n \div x.d) * Pow10(digits) + dec[1] + up
         IN Frac(Sign(x) * units, Pow10(digits))

(***************************************************************************)
(* The liquidation predicates.                                             *)
(***************************************************************************)
Long == 0
Short == 1
PositionTypes == {Long, Short}
Prices == 0..MaxPrice

\* The methods class Calculator defines (utils/Calculator).
CalculatorMethods ==
    {"isValidAmount", "applySlippage", "calculateAmountOut", "calculateAmountIn",
     "calculatePriceImpact", "calculateFee", "calculateNetAmount", "convertByPrice",
     "calculatePercentChange", "calculateAverage", "calculateWeightedAverage",
     "formatFromWei", "parseToWei", "hasSufficientBalance", "normalizeAmount",
     "safeDivide", "toSignificantDigits", "clamp", "calculateGasCost",
     "isWithinTolerance"}

\* BaseModule.calculateValue with a method name: throws when Calculator has
\* no method of that name.
CalculateValueThrows(method) == method \notin CalculatorMethods

\* The answer of a predicate: threw, or the pnl it computed and its flag.
Threw == [threw |-> TRUE, pnl |-> FNaN, shouldLiquidate |-> FALSE]
Answer(pnl, flag) == [threw |-> FALSE, pnl |-> pnl, shouldLiquidate |-> flag]

\* A mutation of KeeperShouldLiquidate: the magnitude of the pnl decides.
KeeperShouldLiquidateAbs(pnlPercent) == FAbsGeq(pnlPercent, LiquidationPnlPercent)

\* KeeperModule.formatPositionData: shouldLiquidate = pnlPercent <= -80
KeeperShouldLiquidate(pnlPercent) == FLeq(pnlPercent, -LiquidationPnlPercent)

\* KeeperModule.formatPositionData: the signed pnl percent
KeeperPnlPercent(entryPrice, currentPrice, positionType) ==
    IF positionType = Long
    THEN FMul(FDiv(currentPrice - entryPrice, entryPrice), 100)
    ELSE FMul(FDiv(entryPrice - currentPrice, entryPrice), 100)

\* KeeperModule.formatPositionData(position, currentPrice)
KeeperFormatPositionData(entryPrice, currentPrice, positionType) ==
    LET pnlPercent == KeeperPnlPercent(entryPrice, currentPrice, positionType)
    IN Answer(pnlPercent, KeeperShouldLiquidate(pnlPercent))

\* ethers 6 hands every ledger integer over as a BigInt: `positionType === 0`
\* compares a BigInt to a Number and is false, and BigInt * 100 raises a
\* TypeError.
BigIntStrictEqualsNumber == FALSE
BigIntTimesNumberThrows == TRUE

\* KeeperModule.checkLiquidationConditions (legacy): the loss branch multiplies
\* a BigInt by the Number 100; the catch block answers false.
CheckLiquidationConditions(entryPrice, currentPrice, positionType) ==
    LET isLong == (positionType = Long) /\ BigIntStrictEqualsNumber
        lossBranch == IF isLong THEN currentPrice <= entryPrice
                                ELSE currentPrice >= entryPrice
        loss == IF isLong THEN entryPrice - currentPrice
                          ELSE currentPrice - entryPrice
    IN IF lossBranch
       THEN IF BigIntTimesNumberThrows
            THEN Answer(FNaN, FALSE)
            ELSE LET pnlPercent == FMul(FDiv(-loss, entryPrice), 100)
                 IN Answer(pnlPercent, FLeq(pnlPercent, -LiquidationPnlPercent))
       ELSE Answer(FNum(0, 1), FLeq(FNum(0, 1), -LiquidationPnlPercent))

\* TradingModule.formatPositionData: asks Calculator for calculatePositionPnL
\* before it computes shouldLiquidate = Math.abs(pnlPercent) >= 80.
TradingFormatPositionData(entryPrice, currentPrice, positionType) ==
    IF CalculateValueThrows("calculatePositionPnL")
    THEN Threw
    ELSE LET pnlPercent == KeeperPnlPercent(entryPrice, currentPrice, positionType)
         IN Answer(pnlPercent, FAbsGeq(pnlPercent, LiquidationPnlPercent))

Implementations == {"keeper", "legacy", "trading"}

LiqInputs == [entryPrice : Prices, currentPrice : Prices, positionType : PositionTypes]

InitLiq ==
    /\ liqIn \in LiqInputs
    /\ liqOut = <<>>

\* One evaluation of every implementation on the position.
EvaluateLiquidation ==
    /\ liqOut = <<>>
    /\ liqOut' = <<
         [keeper |-> KeeperFormatPositionData(liqIn.entryPrice, liqIn.currentPrice,
                                              liqIn.positionType),
          legacy |-> CheckLiquidationConditions(liqIn.entryPrice, liqIn.currentPrice,
                                                liqIn.positionType),
          trading |-> TradingFormatPositionData(liqIn.entryPrice, liqIn.currentPrice,
                                                liqIn.positionType)] >>
    /\ UNCHANGED liqIn

(***************************************************************************)
(* The order scans, on a snapshot of the ledger.  failGet and failShould   *)
(* are the ids whose getOrder / shouldExecuteOrder read raises.            *)
(***************************************************************************)
ScanIds == 1..ScanTotalOrders

\* A mutation of GetAllOrders: the first failed read ends the enumeration.
RECURSIVE GetAllOrdersAbort(_, _, _)
GetAllOrdersAbort(orderId, totalOrders, failGet) ==
    IF orderId > totalOrders \/ orderId \in failGet THEN <<>>
    ELSE <<orderId>> \o GetAllOrdersAbort(orderId + 1, totalOrders, failGet)

\* KeeperModule.getAllOrders: the loop from orderId, a failed read is skipped
RECURSIVE GetAllOrders(_, _, _)
GetAllOrders(orderId, totalOrders, failGet) ==
    IF orderId > totalOrders THEN <<>>
    ELSE IF orderId \in failGet
         THEN GetAllOrders(orderId + 1, totalOrders, failGet)
         ELSE <<orderId>> \o GetAllOrders(orderId + 1, totalOrders, failGet)

\* BaseModule.safeCall(() => shouldExecuteOrder(id), false)
SafeShouldExecute(id, shouldExecute, failShould) ==
    IF id \in failShould THEN FALSE ELSE shouldExecute[id]

\* KeeperModule.getExecutableOrders: the filter over the orders read
RECURSIVE FilterExecutable(_, _, _, _)
FilterExecutable(orders, isExecuted, shouldExecute, failShould) ==
    IF orders = <<>> THEN <<>>
    ELSE LET id == Head(orders)
             rest == FilterExecutable(Tail(orders), isExecuted, shouldExecute, failShould)
         IN IF ~isExecuted[id] /\ SafeShouldExecute(id, shouldExecute, failShould)
            THEN <<id>> \o rest
            ELSE rest

\* KeeperModule.getExecutableOrders
GetExecutableOrders(totalOrders, isExecuted, shouldExecute, failGet, failShould) ==
    FilterExecutable(GetAllOrders(1, totalOrders, failGet), isExecuted, shouldExecute, failShould)

\* KeeperModule.getKeeperOpportunities (legacy): the order loop
RECURSIVE LegacyOrderOpportunities(_, _, _, _, _, _)
LegacyOrderOpportunities(orderId, totalOrders, isExecuted, shouldExecute, failGet, failShould) ==
    IF orderId > totalOrders THEN <<>>
    ELSE LET rest == LegacyOrderOpportunities(orderId + 1, totalOrders, isExecuted,
                                              shouldExecute, failGet, failShould)
         IN IF orderId \in failGet \/ isExecuted[orderId] THEN rest
            ELSE IF SafeShouldExecute(orderId, shouldExecute, failShould)
                 THEN <<orderId>> \o rest
                 ELSE rest

\* RouterModule.getExecutableOrders: the predicate first, then the order
RECURSIVE RouterGetExecutableOrders(_, _, _, _, _, _)
RouterGetExecutableOrders(i, nextOrderId, isExecuted, shouldExecute, failGet, failShould) ==
    IF ~(i < nextOrderId) THEN <<>>
    ELSE LET rest == RouterGetExecutableOrders(i + 1, nextOrderId, isExecuted, shouldExecute,
                                               failGet, failShould)
         IN IF SafeShouldExecute(i, shouldExecute, failShould)
               /\ i \notin failGet /\ ~isExecuted[i]
            THEN <<i>> \o rest
            ELSE rest

ScanInputs ==
    [executed : [ScanIds -> BOOLEAN], ready : [ScanIds -> BOOLEAN],
     failGet : SUBSET ScanIds, failShould : SUBSET ScanIds]

InitScan ==
    /\ scanIn \in ScanInputs
    /\ scanOut = <<>>

\* One run of every scan on the snapshot.
RunScans ==
    /\ scanOut = <<>>
    /\ scanOut' = <<
         [keeper |-> GetExecutableOrders(ScanTotalOrders, scanIn.executed, scanIn.ready,
                                         scanIn.failGet, scanIn.failShould),
          legacy |-> LegacyOrderOpportunities(1, ScanTotalOrders, scanIn.executed,
                                              scanIn.ready, scanIn.failGet,
                                              scanIn.failShould),
          router |-> RouterGetExecutableOrders(1, ScanTotalOrders + 1, scanIn.executed,
                                               scanIn.ready, scanIn.failGet,
                                               scanIn.failShould)] >>
    /\ UNCHANGED scanIn

(***************************************************************************)
(* The Calculator (utils/Calculator): the constant-product formulas.  An   *)
(* argument is a number, or an object, which parseFloat turns into NaN.    *)
(***************************************************************************)
\* CONSTANTS.PRECISION.PRICE_DECIMALS
PriceDecimals == 6
\* calculatePriceImpact: impact.toFixed(2)
ImpactDecimals == 2
\* CONSTANTS.FEES.DEFAULT_FEE_PERCENT
DefaultFeePercent == Frac(3, 10)

Object(amount, feePercent) == [k |-> "obj", amount |-> amount, feePercent |-> feePercent]

ParseFloat(v) == IF v.k = "obj" THEN FNaN ELSE v

\* A mutation of Hundredth: the percentage is divided by 10.
Tenth(p) == Over(p, Whole(10))

\* p / 100
Hundredth(p) == Over(p, Whole(100))

\* A mutation of CalculateAmountOut: only reserveOut is tested for 0.
CalculateAmountOutOneGuard(amountIn, reserveIn, reserveOut, feePercent) ==
    LET amountInNum == ParseFloat(amountIn)
        reserveInNum == ParseFloat(reserveIn)
        reserveOutNum == ParseFloat(reserveOut)
        amountInWithFee == Times(amountInNum, Minus(Whole(1), Hundredth(feePercent)))
        amountOut == Over(Times(amountInWithFee, reserveOutNum),
                          Plus(reserveInNum, amountInWithFee))
    IN IF Same(reserveOutNum, Whole(0)) THEN Whole(0)
       ELSE ToFixed(amountOut, PriceDecimals)

\* A mutation of CalculateAmountOut: the fee is not taken off the amount in.
CalculateAmountOutNoFee(amountIn, reserveIn, reserveOut, feePercent) ==
    LET amountInNum == ParseFloat(amountIn)
        reserveInNum == ParseFloat(reserveIn)
        reserveOutNum == ParseFloat(reserveOut)
    IN IF Same(reserveInNum, Whole(0)) \/ Same(reserveOutNum, Whole(0)) THEN Whole(0)
       ELSE ToFixed(Over(Times(amountInNum, reserveOutNum),
                         Plus(reserveInNum, amountInNum)), PriceDecimals)

\* Calculator.calculateAmountOut
CalculateAmountOut(amountIn, reserveIn, reserveOut, feePercent) ==
    LET amountInNum == ParseFloat(amountIn)
        reserveInNum == ParseFloat(reserveIn)
        reserveOutNum == ParseFloat(reserveOut)
        amountInWithFee == Times(amountInNum, Minus(Whole(1), Hundredth(feePercent)))
        amountOut == Over(Times(amountInWithFee, reserveOutNum),
                          Plus(reserveInNum, amountInWithFee))
    IN IF Same(reserveInNum, Whole(0)) \/ Same(reserveOutNum, Whole(0)) THEN Whole(0)
       ELSE ToFixed(amountOut, PriceDecimals)

\* A mutation of CalculateAmountIn: a request for the whole reserve passes.
CalculateAmountInWholeReserve(amountOut, reserveIn, reserveOut, feePercent) ==
    LET amountOutNum == ParseFloat(amountOut)
        reserveInNum == ParseFloat(reserveIn)
        reserveOutNum == ParseFloat(reserveOut)
        numerator == Times(amountOutNum, reserveInNum)
        denominator == Times(Minus(reserveOutNum, amountOutNum),
                             Minus(Whole(1), Hundredth(feePercent)))
    IN IF \/ Same(reserveInNum, Whole(0))
          \/ Same(reserveOutNum, Whole(0))
          \/ Less(reserveOutNum, amountOutNum)
       THEN Whole(0)
       ELSE ToFixed(Over(numerator, denominator), PriceDecimals)

\* A mutation of CalculateAmountIn: the fee is left out of the denominator.
CalculateAmountInNoFee(amountOut, reserveIn, reserveOut, feePercent) ==
    LET amountOutNum == ParseFloat(amountOut)
        reserveInNum == ParseFloat(reserveIn)
        reserveOutNum == ParseFloat(reserveOut)
    IN IF \/ Same(reserveInNum, Whole(0))
          \/ Same(reserveOutNum, Whole(0))
          \/ AtLeast(amountOutNum, reserveOutNum)
       THEN Whole(0)
       ELSE ToFixed(Over(Times(amountOutNum, reserveInNum),
                         Minus(reserveOutNum, amountOutNum)), PriceDecimals)

\* Calculator.calculateAmountIn
CalculateAmountIn(amountOut, reserveIn, reserveOut, feePercent) ==
    LET amountOutNum == ParseFloat(amountOut)
        reserveInNum == ParseFloat(reserveIn)
        reserveOutNum == ParseFloat(reserveOut)
        numerator == Times(amountOutNum, reserveInNum)
        denominator == Times(Minus(reserveOutNum, amountOutNum),
                             Minus(Whole(1), Hundredth(feePercent)))
    IN IF \/ Same(reserveInNum, Whole(0))
          \/ Same(reserveOutNum, Whole(0))
          \/ AtLeast(amountOutNum, reserveOutNum)
       THEN Whole(0)
       ELSE ToFixed(Over(numerator, denominator), PriceDecimals)

\* Calculator.calculatePriceImpact
CalculatePriceImpact(reserveIn, reserveOut, amountIn) ==
    LET reserveInNum == ParseFloat(reserveIn)
        reserveOutNum == ParseFloat(reserveOut)
        amountInNum == ParseFloat(amountIn)
        k == Times(reserveInNum, reserveOutNum)
        newReserveIn == Plus(reserveInNum, amountInNum)
        newReserveOut == Over(k, newReserveIn)
        amountOut == Minus(reserveOutNum, newReserveOut)
        priceBefore == Over(reserveOutNum, reserveInNum)
        priceAfter == Over(amountOut, amountInNum)
        impact == Times(MathAbs(Over(Minus(priceBefore, priceAfter), priceBefore)),
                        Whole(100))
    IN IF Same(reserveInNum, Whole(0)) \/ Same(reserveOutNum, Whole(0)) THEN Whole(0)
       ELSE ToFixed(impact, ImpactDecimals)

\* Calculator.calculateFee
CalculateFee(amount, feePercent) ==
    ToFixed(Times(ParseFloat(amount), Hundredth(feePercent)), PriceDecimals)

\* A mutation of ApplySlippage: the maximum is computed as the minimum is.
ApplySlippageAlwaysMinimum(amount, slippagePercent, isMinimum) ==
    LET amountNum == ParseFloat(amount)
        slippage == Hundredth(MathAbs(slippagePercent))
    IN ToFixed(Times(amountNum, Minus(Whole(1), slippage)), PriceDecimals)

\* Calculator.applySlippage
ApplySlippage(amount, slippagePercent, isMinimum) ==
    LET amountNum == ParseFloat(amount)
        slippage == Hundredth(MathAbs(slippagePercent))
    IN IF isMinimum
       THEN ToFixed(Times(amountNum, Minus(Whole(1), slippage)), PriceDecimals)
       ELSE ToFixed(Times(amountNum, Plus(Whole(1), slippage)), PriceDecimals)

\* BaseModule.calculateValue(params, 'calculateFee'): calculator[method](params),
\* the one argument it passes on.
CalculateValueFee(params) == CalculateFee(params, DefaultFeePercent)

\* KeeperModule.getKeeperOpportunities: feePercent: 0.1 of an order
OrderFeePercent == Frac(1, 10)

\* KeeperModule.getKeeperOpportunities: estimatedReward of an order
EstimatedReward(amountIn) == CalculateValueFee(Object(amountIn, OrderFeePercent))

\* Whole amounts and reserves, and percentages down to tenths.
WholeAmounts == {Whole(u * scale) : u \in 0..MaxUnits, scale \in {1, 10, 100}}
Percents == {Frac(u, scale) : u \in 0..MaxUnits, scale \in {1, 10}}

\* The worked example: reserveIn=1000, reserveOut=2000, amountIn=10, fee=0.3%
ExampleInputs ==
    {[amount |-> Whole(10), other |-> Whole(10), reserveIn |-> Whole(1000),
      reserveOut |-> Whole(2000), percent |-> DefaultFeePercent]}

CalcInputs ==
    [amount : WholeAmounts, other : WholeAmounts, reserveIn : WholeAmounts,
     reserveOut : WholeAmounts, percent : Percents]
    \cup ExampleInputs

InitCalc ==
    /\ callIn \in CalcInputs
    /\ callOut = <<>>

\* One evaluation of the fee, the amount out, the price impact and the
\* slippage bounds.
Calculate ==
    /\ callOut = <<>>
    /\ callOut' = <<
         [reward |-> EstimatedReward(callIn.amount),
          fee |-> CalculateFee(callIn.amount, callIn.percent),
          out |-> CalculateAmountOut(callIn.amount, callIn.reserveIn,
                                     callIn.reserveOut, callIn.percent),
          impact |-> CalculatePriceImpact(callIn.reserveIn, callIn.reserveOut,
                                          callIn.amount),
          impactOther |-> CalculatePriceImpact(callIn.reserveIn, callIn.reserveOut,
                                               callIn.other),
          minimum |-> ApplySlippage(callIn.amount, callIn.percent, TRUE),
          maximum |-> ApplySlippage(callIn.amount, callIn.percent, FALSE)] >>
    /\ UNCHANGED callIn

\* Amounts and reserves of a pool, 0 included.
PoolAmounts == {Whole(u * scale) : u \in 0..MaxUnits, scale \in {1, 10}}
\* Amounts in far larger than the reserve they are paid into.
LargeAmounts == {Whole(u * 10000000) : u \in 1..MaxUnits}
SmallReserves == {Whole(u) : u \in 1..MaxUnits}
\* Amounts in far smaller than the last decimal of a result.
DustAmounts == {Frac(u, 10000000) : u \in 1..MaxUnits}
\* Fee percentages whose factor 1 - fee/100 is 1, 1/2, 0 or -1.
AmmFees == {Whole(0), Whole(50), Whole(100), Whole(200)}

AmmInputs ==
    [amount : PoolAmounts, other : PoolAmounts, reserveIn : PoolAmounts,
     reserveOut : PoolAmounts, fee : AmmFees]
    \cup
    [amount : LargeAmounts, other : LargeAmounts, reserveIn : SmallReserves,
     reserveOut : {Whole(1)}, fee : {Whole(0)}]
    \cup
    [amount : DustAmounts, other : DustAmounts, reserveIn : {Whole(1)},
     reserveOut : {Whole(1)}, fee : {Whole(0)}]

InitAmm ==
    /\ callIn \in AmmInputs
    /\ callOut = <<>>

\* One evaluation of the amount out for two amounts in, of the amount in
\* for the amount out obtained, and of the amount in for the first amount
\* taken as the amount out requested.
Swap ==
    /\ callOut = <<>>
    /\ callOut' = LET out == CalculateAmountOut(callIn.amount, callIn.reserveIn,
                                                callIn.reserveOut, callIn.fee)
                  IN << [out |-> out,
                         outOther |-> CalculateAmountOut(callIn.other, callIn.reserveIn,
                                                         callIn.reserveOut, callIn.fee),
                         back |-> CalculateAmountIn(out, callIn.reserveIn,
                                                    callIn.reserveOut, callIn.fee),
                         inFor |-> CalculateAmountIn(callIn.amount, callIn.reserveIn,
                                                     callIn.reserveOut, callIn.fee)] >>
    /\ UNCHANGED callIn

(***************************************************************************)
(* The minimum-output guard of a swap or an order.  An amount in wei is    *)
(* m * 10^e; parseToWei appends WeiDecimals zeros to the digits it is      *)
(* given, whether they are an amount in tokens or already one in wei.      *)
(***************************************************************************)
\* parseToWei(amount, decimals = 18)
WeiDecimals == 18
\* createLimitOrder and createStopLossOrder: the slippage they pass
LimitOrderSlippage == 5
StopLossSlippage == 10

Wei(m, e) == [k |-> "wei", m |-> m, e |-> e]

\* Calculator.parseToWei: ethers.parseUnits(amount.toString(), 18)
ParseToWei(amount) ==
    IF amount.k = "wei" THEN Wei(amount.m, amount.e + WeiDecimals)
    ELSE Wei(amount.n, WeiDecimals)

\* The ledger's getAmountOut(amountInWei, tokenIn, tokenOut), at a rate of
\* rate tokens out for one in.
LedgerGetAmountOut(amountInWei, rate) == Wei(amountInWei.m * rate, amountInWei.e)

\* BaseModule.calculateValue(params, 'applySlippage'): the one argument is
\* the amount, slippagePercent is undefined and isMinimum its default.
CalculateValueApplySlippage(params) == ApplySlippage(params, FNaN, TRUE)

GuardPaths == {"swapTokens", "createLimitOrder", "createStopLossOrder", "poolSwapTokens"}

\* The slippage the path hands to calculateMinAmountOut.
SlippageOf(path, slippage) ==
    CASE path = "createLimitOrder" -> Whole(LimitOrderSlippage)
      [] path = "createStopLossOrder" -> Whole(StopLossSlippage)
      [] OTHER -> slippage

\* What calculateMinAmountOut asks the ledger's quote for: RouterModule
\* goes through getAmountOut, which parses its argument to wei once more.
QuotedFor(path, amountInWei) ==
    IF path = "poolSwapTokens" THEN amountInWei ELSE ParseToWei(amountInWei)

\* RouterModule.calculateMinAmountOut / PoolModule.calculateMinAmountOut
CalculateMinAmountOut(path, amountInWei, slippagePercent, rate) ==
    LET amountOut == LedgerGetAmountOut(QuotedFor(path, amountInWei), rate)
    IN CalculateValueApplySlippage([k |-> "obj", amount |-> amountOut,
                                    slippage |-> slippagePercent, isMinimum |-> TRUE])

Rates == 1..MaxUnits

GuardInputs ==
    [path : GuardPaths, amount : WholeAmounts \ {Whole(0)}, percent : Percents,
     rate : Rates]

InitGuard ==
    /\ callIn \in GuardInputs
    /\ callOut = <<>>

\* swapTokens / createLimitOrder / createStopLossOrder up to the arguments
\* of the contract call.
SubmitGuard ==
    /\ callOut = <<>>
    /\ callOut' = LET amountInWei == ParseToWei(callIn.amount)
                      slippage == SlippageOf(callIn.path, callIn.percent)
                  IN << [amountInWei |-> amountInWei,
                         quotedFor |-> QuotedFor(callIn.path, amountInWei),
                         quote |-> LedgerGetAmountOut(QuotedFor(callIn.path, amountInWei),
                                                      callIn.rate),
                         slippage |-> slippage,
                         amountOutMin |-> CalculateMinAmountOut(callIn.path, amountInWei,
                                                                slippage, callIn.rate)] >>
    /\ UNCHANGED callIn

(***************************************************************************)
(* The bounded-retry helpers: BaseModule.executeWithRetry and              *)
(* ContractHelpers.retryCall, step by step.  attempt is the loop variable  *)
(* (attempt, from 1) or (i, from 0); outcome is the state of the promise    *)
(* the helper returned.                                                    *)
(***************************************************************************)
RetryHelpers == {"executeWithRetry", "retryCall"}
Errors == {"network", "revert"}

RetryInputs == [helper : RetryHelpers, maxRetries : 0..MaxRetries]

InitRetry ==
    /\ callIn \in RetryInputs
    /\ callOut = <<>>

Running(pc) == callOut # <<>> /\ callOut[1].pc = pc

\* The call: let lastError; attempt = 1, or the executor starts with i = 0.
RetryStart ==
    /\ callOut = <<>>
    /\ callOut' = << [pc |-> "loop",
                      attempt |-> IF callIn.helper = "executeWithRetry" THEN 1 ELSE 0,
                      calls |-> 0, failed |-> 0, lastError |-> "none",
                      outcome |-> "pending"] >>
    /\ UNCHANGED callIn

\* The loop condition holds: the operation is invoked.
RetryInvoke ==
    /\ Running("loop")
    /\ IF callIn.helper = "executeWithRetry"
       THEN callOut[1].attempt <= callIn.maxRetries
       ELSE callOut[1].attempt < callIn.maxRetries
    /\ callOut' = << [callOut[1] EXCEPT !.pc = "await", !.calls = @ + 1] >>
    /\ UNCHANGED callIn

\* The loop condition fails: executeWithRetry throws 'All attempts
\* failed'; the executor of retryCall returns without settling its promise.
RetryLoopEnds ==
    /\ Running("loop")
    /\ IF callIn.helper = "executeWithRetry"
       THEN /\ ~(callOut[1].attempt <= callIn.maxRetries)
            /\ callOut' = << [callOut[1] EXCEPT !.pc = "returned",
                                                !.outcome = "rejected"] >>
       ELSE /\ ~(callOut[1].attempt < callIn.maxRetries)
            /\ callOut' = << [callOut[1] EXCEPT !.pc = "returned"] >>
    /\ UNCHANGED callIn

\* The operation fulfils: return its result / resolve(result); return.
OperationFulfils ==
    /\ Running("await")
    /\ callOut' = << [callOut[1] EXCEPT !.pc = "returned", !.outcome = "resolved"] >>
    /\ UNCHANGED callIn

\* The operation raises: the catch block.
OperationRaises ==
    /\ Running("await")
    /\ \E error \in Errors :
          LET caught == [callOut[1] EXCEPT !.lastError = error, !.failed = @ + 1]
          IN callOut' =
               IF callIn.helper = "executeWithRetry"
               THEN IF caught.attempt < callIn.maxRetries
                    THEN << [caught EXCEPT !.pc = "delay"] >>
                    ELSE << [caught EXCEPT !.pc = "loop", !.attempt = @ + 1] >>
               ELSE IF caught.attempt = callIn.maxRetries - 1
                    THEN << [caught EXCEPT !.pc = "returned", !.outcome = "rejected"] >>
                    ELSE << [caught EXCEPT !.pc = "delay"] >>
    /\ UNCHANGED callIn

\* The timer of delay * attempt fires: the next turn of the loop.
DelayElapses ==
    /\ Running("delay")
    /\ callOut' = << [callOut[1] EXCEPT !.pc = "loop", !.attempt = @ + 1] >>
    /\ UNCHANGED callIn

(***************************************************************************)
(* Batch price updates.  A call is given tokens token addresses and prices *)
(* prices; the price generator has prices symbols, tokens of them with a   *)
(* configured address.                                                     *)
(***************************************************************************)
\* OracleModule.batchUpdatePrices: tokenAddresses.length > 10 is refused.
MaxBatchSize == 10

PricePaths == {"oracle", "router", "generator"}

NotSubmitted(threw) == [threw |-> threw, submitted |-> FALSE, tokens |-> 0, prices |-> 0]
Submitted(tokens, prices) ==
    [threw |-> FALSE, submitted |-> TRUE, tokens |-> tokens, prices |-> prices]

\* OracleModule.batchUpdatePrices
OracleBatchUpdatePrices(tokens, prices) ==
    IF tokens # prices THEN NotSubmitted(TRUE)
    ELSE IF tokens > MaxBatchSize THEN NotSubmitted(TRUE)
    ELSE Submitted(tokens, prices)

\* RouterModule.batchUpdateOraclePrices
RouterBatchUpdateOraclePrices(tokens, prices) == Submitted(tokens, prices)

\* PriceGenerator.updatePrices, the system being operational: one price per
\* symbol, one token per symbol that is ETH or has an address.
GeneratorUpdatePrices(withAddress, symbols) ==
    IF withAddress > 0 THEN RouterBatchUpdateOraclePrices(withAddress, symbols)
    ELSE NotSubmitted(FALSE)

PriceInputs ==
    {in \in [path : PricePaths, tokens : 0..MaxTokens, prices : 0..MaxTokens] :
        in.path = "generator" => in.tokens <= in.prices}

InitPrices ==
    /\ callIn \in PriceInputs
    /\ callOut = <<>>

\* One batch price update on the path of callIn.
UpdatePrices ==
    /\ callOut = <<>>
    /\ callOut' = << CASE callIn.path = "oracle" ->
                            OracleBatchUpdatePrices(callIn.tokens, callIn.prices)
                       [] callIn.path = "router" ->
                            RouterBatchUpdateOraclePrices(callIn.tokens, callIn.prices)
                       [] OTHER -> GeneratorUpdatePrices(callIn.tokens, callIn.prices) >>
    /\ UNCHANGED callIn

(***************************************************************************)
(* The ledger, as the keeper sees it through its contracts.  Competing     *)
(* keepers and the operator change it between any two calls of the keeper. *)
(***************************************************************************)
OrderIds == 1..NumOrders
PositionIds == 1..NumPositions

\* The positions the ledger may hold: one at the liquidation boundary and one
\* just short of it.
PositionConfigs ==
    {[entryPrice |-> 100, currentPrice |-> 20, positionType |-> Long],
     [entryPrice |-> 100, currentPrice |-> 21, positionType |-> Long]}

\* The reads that fail during one scan, at most MaxFaults of a kind.
FaultSets(ids) == {F \in SUBSET ids : Cardinality(F) <= MaxFaults}

\* Why the ledger or the network refuses a write.
Reasons == {"settled", "economic", "transient", "unknown"}

\* What sending a write answers: the transaction is accepted, or the call
\* raises.  A write for a settled order or position is never accepted.
SubmitResponses(settled) ==
    IF settled THEN {"settled"}
    ELSE {"accepted", "transient", "unknown"}

\* What tx.wait() answers: a receipt, or an error.  A transaction that is
\* mined after a competitor settled its target reverts, and so does one whose
\* economic conditions no longer hold.
ConfirmResponses(settled) ==
    IF settled THEN {"settled"}
    ELSE {"ok", "economic"}

InitLedger ==
    /\ paused = FALSE
    /\ executed = [id \in OrderIds |-> FALSE]
    /\ ready = [id \in OrderIds |-> TRUE]  \* a failed shouldExecuteOrder read counts as false
    /\ isOpen = [id \in PositionIds |-> TRUE]
    /\ posData \in [PositionIds -> PositionConfigs]

(***************************************************************************)
(* The position scan.                                                      *)
(***************************************************************************)
\* KeeperModule.getAllPositions: the loop from positionId, a failed read is
\* skipped
RECURSIVE GetAllPositions(_, _, _)
GetAllPositions(positionId, totalPositions, failGet) ==
    IF positionId > totalPositions THEN <<>>
    ELSE IF positionId \in failGet
         THEN GetAllPositions(positionId + 1, totalPositions, failGet)
         ELSE <<positionId>> \o GetAllPositions(positionId + 1, totalPositions, failGet)

\* KeeperModule.getLiquidatablePositions: the filter over the positions read
RECURSIVE FilterLiquidatable(_, _, _)
FilterLiquidatable(positions, open, data) ==
    IF positions = <<>> THEN <<>>
    ELSE LET id == Head(positions)
             rest == FilterLiquidatable(Tail(positions), open, data)
             position == KeeperFormatPositionData(data[id].entryPrice,
                                                  data[id].currentPrice,
                                                  data[id].positionType)
         IN IF open[id] /\ position.shouldLiquidate THEN <<id>> \o rest ELSE rest

\* KeeperModule.getLiquidatablePositions
GetLiquidatablePositions(totalPositions, open, data, failGet) ==
    FilterLiquidatable(GetAllPositions(1, totalPositions, failGet), open, data)

\* findLiquidatablePositions (legacy) stops at this many positions.
LegacyLiquidatableCap == 10

\* KeeperModule.findLiquidatablePositions (legacy): the loop from positionId
\* with the positions found so far
RECURSIVE FindLiquidatablePositions(_, _, _, _, _, _)
FindLiquidatablePositions(positionId, totalPositions, open, data, failGet, found) ==
    IF ~(positionId <= totalPositions /\ Len(found) < LegacyLiquidatableCap) THEN found
    ELSE LET check == CheckLiquidationConditions(data[positionId].entryPrice,
                                                 data[positionId].currentPrice,
                                                 data[positionId].positionType)
             hit == positionId \notin failGet /\ open[positionId] /\ check.shouldLiquidate
         IN FindLiquidatablePositions(positionId + 1, totalPositions, open, data, failGet,
                                      IF hit THEN Append(found, positionId) ELSE found)

Min(a, b) == IF a <= b THEN a ELSE b

\* A mutation of Slice: the whole array.
SliceWhole(list, end) == list

\* Array.prototype.slice(0, end) for end >= 0
Slice(list, end) == SubSeq(list, 1, Min(end, Len(list)))

(***************************************************************************)
(* The keeper.  Four drivers run its cycle:                                *)
(*   "cycle"    KeeperModule.startKeeper: an interval timer whose callback *)
(*              awaits executeKeeperCycle; callbacks may overlap           *)
(*   "loop"     the keeper service loop built on KeeperModule              *)
(*   "example"  examples/keeper.js: processOrders and processPositions     *)
(*              under Promise.all                                          *)
(*   "batch"    calls of executeKeeperBatch on the legacy KeeperModule,    *)
(*              started with its monitors switched off                     *)
(* A coroutine is followed from await to await; the reads of one scan are  *)
(* taken on one snapshot of the ledger.                                    *)
(***************************************************************************)
Drivers == {"cycle", "loop", "example", "batch"}
Tasks == {"A", "B"}

NoAttempt ==
    [kind |-> "none", id |-> 0, status |-> "none", reason |-> "none", seen |-> FALSE,
     tries |-> 0]

\* A coroutine at pc: the orders and positions its scan returned, how many of
\* them it has attempted, the counters of its cycle, whether the ledger was
\* paused when its cycle asked, and its latest write.  A call of
\* executeKeeperBatch also has its maxOperations (limit) and the number of
\* opportunities its scan returned beyond them (cut).
Fresh(pc, sawPaused) ==
    [pc |-> pc, olist |-> <<>>, oidx |-> 0, plist |-> <<>>, pidx |-> 0,
     limit |-> 0, cut |-> 0,
     results |-> [executed |-> 0, liquidated |-> 0, errors |-> 0],
     sawPaused |-> sawPaused, statusRaised |-> FALSE, att |-> NoAttempt]

IdleTask == Fresh("idle", FALSE)

\* A cycle is about to read whether the system is paused.
StatusReadPending ==
    \/ \E t \in Tasks : task[t].pc = "status"
    \/ /\ driver = "example"
       /\ cycle < MaxCycles
       /\ mainPc = "sleep"
       /\ \A t \in Tasks : task[t].pc = "idle"

\* The operator pauses or resumes the system.  The keeper reads the flag only
\* in the status check that opens a cycle, so the toggles that matter are
\* those just before such a read.
EnvTogglePause ==
    /\ StatusReadPending
    /\ paused' = ~paused
    /\ UNCHANGED <<executed, ready, isOpen, posData>>

\* A competing keeper executes an order.
EnvSettleOrder(id) ==
    /\ ~executed[id]
    /\ executed' = [executed EXCEPT ![id] = TRUE]
    /\ UNCHANGED <<paused, ready, isOpen, posData>>

\* A competing keeper liquidates a position, or its owner closes it.
EnvClosePosition(id) ==
    /\ isOpen[id]
    /\ isOpen' = [isOpen EXCEPT ![id] = FALSE]
    /\ UNCHANGED <<paused, executed, ready, posData>>

\* The methods class RouterModule defines.
RouterModuleMethods ==
    {"depositETH", "depositToken", "withdrawETH", "withdrawToken", "swapTokens",
     "createLimitOrder", "createStopLossOrder", "openPosition", "closePosition",
     "cancelOrder", "executeOrder", "selfExecuteOrder", "liquidatePosition",
     "getBalance", "getAvailableBalance", "getPrice", "getAmountOut",
     "calculateMinAmountOut", "getUserOrders", "getUserPositions", "getSystemInfo",
     "getUserTokenomicsInfo", "getTokenomicsStats", "claimLPFees",
     "getClaimableLPFees", "updateOraclePrice", "batchUpdateOraclePrices",
     "shouldExecuteOrder", "canExecuteOrder", "getExecutableOrders"}

\* KeeperModule.getSystemStatus().isOperational.  accessControl is "absent"
\* (no such contract), "ok", "stopped" (emergencyStop() is true) or "fails".
GetSystemStatus(isSystemPaused, readRaises, accessControl) ==
    IF readRaises THEN FALSE
    ELSE ~isSystemPaused /\ accessControl # "stopped"

\* examples/keeper.js: await router.isSystemPaused() raises, on a failed
\* read or because RouterModule has no such method.
StatusReadRaises(readRaises) == readRaises \/ "isSystemPaused" \notin RouterModuleMethods

\* examples/keeper.js checkSystemStatus: !(await router.isSystemPaused()),
\* and true when that raises; calling a method RouterModule lacks raises.
CheckSystemStatus(isSystemPaused, readRaises) ==
    IF readRaises \/ "isSystemPaused" \notin RouterModuleMethods THEN TRUE
    ELSE ~isSystemPaused

\* A mutation of CatchContinues: executeKeeperCycle rethrows.
CatchRethrowsInCycle(drv) == drv # "cycle"

\* The catch block around one execution or liquidation swallows the error,
\* so the for loop goes on with the next opportunity.
CatchContinues(drv) == TRUE

\* Where control goes when the loop over the orders (positions) is over.
AfterPhase(drv, kind, cycleCounter) ==
    CASE drv = "example" -> "done"
      [] kind = "position" -> "report"
      [] drv = "cycle" -> "scanP"
      [] drv = "batch" -> "batchP"
      [] OTHER -> IF cycleCounter % 2 = 0 THEN "scanP" ELSE "report"

InitKeeper ==
    /\ driver \in Drivers
    /\ isRunning = FALSE
    /\ timer = FALSE
    /\ cycle = 0
    /\ mainPc = "sleep"
    /\ stats = [ordersExecuted |-> 0, positionsLiquidated |-> 0, pricesUpdated |-> 0,
                errors |-> 0]
    /\ localStats = [orders |-> 0, positions |-> 0, errors |-> 0]
    /\ task = [t \in Tasks |-> IdleTask]
    /\ seen = [orders |-> {}, positions |-> {}]

\* A mutation of StatsOnSuccess: every receipt is counted as an order.
StatsOnSuccessAsOrder(kind) ==
    IF driver = "example" THEN stats
    ELSE [stats EXCEPT !.ordersExecuted = @ + 1]

\* The counters after a confirmed write.
StatsOnSuccess(kind) ==
    IF driver = "example" THEN stats
    ELSE IF kind = "order"
         THEN [stats EXCEPT !.ordersExecuted = @ + 1]
         ELSE [stats EXCEPT !.positionsLiquidated = @ + 1]

LocalOnSuccess(kind) ==
    IF driver # "example" THEN localStats
    ELSE IF kind = "order"
         THEN [localStats EXCEPT !.orders = @ + 1]
         ELSE [localStats EXCEPT !.positions = @ + 1]

ResultsOnSuccess(results, kind) ==
    IF driver = "loop" THEN results
    ELSE IF kind = "order"
         THEN [results EXCEPT !.executed = @ + 1]
         ELSE [results EXCEPT !.liquidated = @ + 1]

\* The counters after a failed write.
StatsOnFailure ==
    IF driver = "batch" THEN [stats EXCEPT !.errors = @ + 1] ELSE stats

LocalOnFailure ==
    IF driver = "example" THEN [localStats EXCEPT !.errors = @ + 1] ELSE localStats

ResultsOnFailure(results) ==
    IF driver \in {"cycle", "batch"} THEN [results EXCEPT !.errors = @ + 1] ELSE results

\* An exception leaves coroutine t of examples/keeper.js: Promise.all rejects
\* at once, main counts an error and sleeps, the other coroutine runs on.
ExampleRejects(t) ==
    /\ task' = [u \in Tasks |->
                  IF u = t \/ task[u].pc = "done" THEN IdleTask ELSE task[u]]
    /\ IF mainPc = "await"
       THEN /\ mainPc' = "sleep"
            /\ localStats' = [localStats EXCEPT !.errors = @ + 1]
       ELSE UNCHANGED <<mainPc, localStats>>

\* Coroutine t goes on as tk; a coroutine of examples/keeper.js that returns
\* after main has left Promise.all is dropped.
Continue(t, tk) ==
    task' = [task EXCEPT ![t] =
               IF tk.pc = "done" /\ mainPc # "await" THEN IdleTask ELSE tk]

\* The try/catch around the body of a cycle (executeKeeperCycle, the interval
\* callback, the while loops of the two keeper scripts) catches every error.
CycleCatches(drv) == TRUE

\* An exception reaches the handler around the whole cycle; uncaught, it
\* would end the driver.  executeKeeperCycle goes on to return its results;
\* the keeper service loop goes to its sleep past the statistics.
CycleRaises(t, tk) ==
    IF ~CycleCatches(driver)
    THEN /\ mainPc' = "exited"
         /\ task' = [u \in Tasks |-> IdleTask]
         /\ UNCHANGED localStats
    ELSE IF driver = "example"
    THEN ExampleRejects(t)
    ELSE /\ Continue(t, IF driver = "loop" THEN IdleTask
                         ELSE [tk EXCEPT !.pc = "report",
                                         !.results = ResultsOnFailure(tk.results)])
         /\ UNCHANGED <<mainPc, localStats>>

(***************************************************************************)
(* Starting and stopping the drivers.                                      *)
(***************************************************************************)
\* A mutation of StartKeeper: the counters start from zero again.
StartKeeperResetsStats ==
    /\ driver = "cycle"
    /\ ~isRunning
    /\ isRunning' = TRUE
    /\ timer' = TRUE
    /\ stats' = [ordersExecuted |-> 0, positionsLiquidated |-> 0, pricesUpdated |-> 0,
                 errors |-> 0]
    /\ UNCHANGED <<driver, cycle, mainPc, localStats, task, seen>>
    /\ UNCHANGED ledgerVars
    /\ UNCHANGED pureVars

\* KeeperModule.startKeeper
StartKeeper ==
    /\ driver = "cycle"
    /\ ~isRunning
    /\ isRunning' = TRUE
    /\ timer' = TRUE
    /\ UNCHANGED <<driver, cycle, mainPc, stats, localStats, task, seen>>
    /\ UNCHANGED ledgerVars
    /\ UNCHANGED pureVars

\* KeeperModule.stopKeeper
StopKeeper ==
    /\ driver = "cycle"
    /\ isRunning
    /\ timer' = FALSE
    /\ isRunning' = FALSE
    /\ UNCHANGED <<driver, cycle, mainPc, stats, localStats, task, seen>>
    /\ UNCHANGED ledgerVars
    /\ UNCHANGED pureVars

\* KeeperModule.startKeeper (legacy), with every monitor switched off in the
\* config it is given.
LegacyStartKeeper ==
    /\ driver = "batch"
    /\ ~isRunning
    /\ isRunning' = TRUE
    /\ UNCHANGED <<driver, timer, cycle, mainPc, stats, localStats, task, seen>>
    /\ UNCHANGED ledgerVars
    /\ UNCHANGED pureVars

\* KeeperModule.stopKeeper (legacy)
LegacyStopKeeper ==
    /\ driver = "batch"
    /\ isRunning
    /\ isRunning' = FALSE
    /\ UNCHANGED <<driver, timer, cycle, mainPc, stats, localStats, task, seen>>
    /\ UNCHANGED ledgerVars
    /\ UNCHANGED pureVars

\* A mutation of TimerTick: the interval outlives stopKeeper and its callback
\* does not ask isRunning.
TimerTickAfterStop(t) ==
    /\ driver = "cycle"
    /\ mainPc # "exited"
    /\ cycle < MaxCycles
    /\ task[t].pc = "idle"
    /\ t = "A" \/ task["A"].pc # "idle"
    /\ cycle' = cycle + 1
    /\ task' = [task EXCEPT ![t] = Fresh("status", FALSE)]
    /\ UNCHANGED <<driver, isRunning, timer, mainPc, stats, localStats, seen>>
    /\ UNCHANGED ledgerVars
    /\ UNCHANGED pureVars

\* The interval fires: the callback of startKeeper enters executeKeeperCycle
\* in a coroutine of its own, whether or not the previous one has returned.
TimerTick(t) ==
    /\ driver = "cycle"
    /\ timer
    /\ mainPc # "exited"
    /\ cycle < MaxCycles
    /\ task[t].pc = "idle"
    /\ t = "A" \/ task["A"].pc # "idle"
    /\ IF isRunning
       THEN /\ cycle' = cycle + 1
            /\ task' = [task EXCEPT ![t] = Fresh("status", FALSE)]
            /\ UNCHANGED timer
       ELSE /\ timer' = FALSE
            /\ UNCHANGED <<cycle, task>>
    /\ UNCHANGED <<driver, isRunning, mainPc, stats, localStats, seen>>
    /\ UNCHANGED ledgerVars
    /\ UNCHANGED pureVars

\* The sleep of the keeper service loop is over: the next iteration begins.
LoopTick ==
    /\ driver = "loop"
    /\ mainPc # "exited"
    /\ cycle < MaxCycles
    /\ task["A"].pc = "idle"
    /\ cycle' = cycle + 1
    /\ task' = [task EXCEPT !["A"] = Fresh("status", FALSE)]
    /\ UNCHANGED <<driver, isRunning, timer, mainPc, stats, localStats, seen>>
    /\ UNCHANGED ledgerVars
    /\ UNCHANGED pureVars

\* examples/keeper.js: the next iteration begins, checkSystemStatus answers
\* and main awaits Promise.all([processOrders(), processPositions()]).
ExampleTick ==
    /\ driver = "example"
    /\ cycle < MaxCycles
    /\ mainPc = "sleep"
    /\ \A t \in Tasks : task[t].pc = "idle"
    /\ cycle' = cycle + 1
    /\ \E readRaises \in BOOLEAN :
         IF CheckSystemStatus(paused, readRaises)
         THEN /\ task' = [t \in Tasks |->
                            [(IF t = "A" THEN Fresh("scanO", paused)
                              ELSE IF cycle' % 2 = 0 THEN Fresh("scanP", paused)
                              ELSE Fresh("done", paused))
                             EXCEPT !.statusRaised = StatusReadRaises(readRaises)]]
              /\ mainPc' = "await"
         ELSE UNCHANGED <<task, mainPc>>
    /\ UNCHANGED <<driver, isRunning, timer, stats, localStats, seen>>
    /\ UNCHANGED ledgerVars
    /\ UNCHANGED pureVars

\* A mutation of BatchCall: the call does not ask whether the keeper runs.
BatchCallUnguarded ==
    /\ driver = "batch"
    /\ cycle < MaxCycles
    /\ task["A"].pc = "idle"
    /\ cycle' = cycle + 1
    /\ \E maxOperations \in 0..MaxOperations :
         task' = [task EXCEPT !["A"] = [Fresh("scanB", FALSE) EXCEPT
                                          !.limit = maxOperations]]
    /\ UNCHANGED <<driver, isRunning, timer, mainPc, stats, localStats, seen>>
    /\ UNCHANGED ledgerVars
    /\ UNCHANGED pureVars

\* The owner of the legacy KeeperModule calls executeKeeperBatch, one call
\* after the other; the call throws when the keeper is not running.
BatchCall ==
    /\ driver = "batch"
    /\ cycle < MaxCycles
    /\ task["A"].pc = "idle"
    /\ cycle' = cycle + 1
    /\ \E maxOperations \in 0..MaxOperations :
         task' = IF isRunning
                 THEN [task EXCEPT !["A"] = [Fresh("scanB", FALSE) EXCEPT
                                              !.limit = maxOperations]]
                 ELSE task
    /\ UNCHANGED <<driver, isRunning, timer, mainPc, stats, localStats, seen>>
    /\ UNCHANGED ledgerVars
    /\ UNCHANGED pureVars

\* executeKeeperCycle and the keeper service loop ask getSystemStatus and
\* leave the cycle when the system is not operational.
CheckStatus(t) ==
    /\ task[t].pc = "status"
    /\ \E readRaises \in BOOLEAN, accessControl \in {"absent", "ok", "stopped", "fails"} :
         task' = [task EXCEPT ![t] =
                    IF GetSystemStatus(paused, readRaises, accessControl)
                    THEN [@ EXCEPT !.pc = "scanO", !.sawPaused = paused]
                    ELSE IdleTask]
    /\ UNCHANGED <<driver, isRunning, timer, cycle, mainPc, stats, localStats, seen>>
    /\ UNCHANGED ledgerVars
    /\ UNCHANGED pureVars

(***************************************************************************)
(* Scanning.                                                               *)
(***************************************************************************)
\* The orders (positions) a scan has read as settled.
ObservedExecuted(failGet) == {id \in OrderIds \ failGet : executed[id]}
ObservedClosed(failGet) == {id \in PositionIds \ failGet : ~isOpen[id]}

\* Where control goes with the list a scan returned.
AfterScan(list, kind) ==
    IF list = <<>> THEN AfterPhase(driver, kind, cycle)
    ELSE IF kind = "order" THEN "execO" ELSE "execP"

\* executeKeeperCycle and the keeper service loop: getExecutableOrders().
\* raises: reading nextOrderId raises, which no per-order handler catches.
ScanOrders(t) ==
    /\ driver # "example"
    /\ task[t].pc = "scanO"
    /\ \E raises \in BOOLEAN, failGet \in FaultSets(OrderIds), failShould \in FaultSets(OrderIds) :
         IF raises
         THEN CycleRaises(t, task[t]) /\ UNCHANGED seen
         ELSE LET list == GetExecutableOrders(NumOrders, executed, ready, failGet, failShould)
              IN /\ Continue(t, [task[t] EXCEPT
                        !.olist = list,
                        !.pc = IF driver = "loop" THEN "scanAll"
                               ELSE AfterScan(list, "order")])
                 /\ seen' = [seen EXCEPT !.orders = @ \cup ObservedExecuted(failGet)]
                 /\ UNCHANGED <<mainPc, localStats>>
    /\ UNCHANGED <<driver, isRunning, timer, cycle, stats>>
    /\ UNCHANGED ledgerVars
    /\ UNCHANGED pureVars

\* The keeper service loop: getAllOrders(), read again for the log line of
\* completed and pending orders, before the executable orders are executed.
LoopGetAllOrders(t) ==
    /\ driver = "loop"
    /\ task[t].pc = "scanAll"
    /\ \E raises \in BOOLEAN, failGet \in FaultSets(OrderIds) :
         IF raises
         THEN CycleRaises(t, task[t]) /\ UNCHANGED seen
         ELSE /\ Continue(t, [task[t] EXCEPT !.pc = AfterScan(task[t].olist, "order")])
              /\ seen' = [seen EXCEPT !.orders = @ \cup ObservedExecuted(failGet)]
              /\ UNCHANGED <<mainPc, localStats>>
    /\ UNCHANGED <<driver, isRunning, timer, cycle, stats>>
    /\ UNCHANGED ledgerVars
    /\ UNCHANGED pureVars

\* A mutation of ScanPositions: a scan that raises is counted in the stats.
ScanPositionsCountsError(t) ==
    /\ driver # "example"
    /\ task[t].pc = "scanP"
    /\ \E raises \in BOOLEAN, failGet \in FaultSets(PositionIds) :
         IF raises
         THEN /\ CycleRaises(t, task[t])
              /\ stats' = [stats EXCEPT !.errors = @ + 1]
              /\ UNCHANGED seen
         ELSE LET list == GetLiquidatablePositions(NumPositions, isOpen, posData, failGet)
              IN /\ Continue(t, [task[t] EXCEPT
                        !.plist = list, !.pc = AfterScan(list, "position")])
                 /\ seen' = [seen EXCEPT !.positions = @ \cup ObservedClosed(failGet)]
                 /\ UNCHANGED <<mainPc, localStats, stats>>
    /\ UNCHANGED <<driver, isRunning, timer, cycle>>
    /\ UNCHANGED ledgerVars
    /\ UNCHANGED pureVars

\* executeKeeperCycle and the keeper service loop: getLiquidatablePositions().
ScanPositions(t) ==
    /\ driver # "example"
    /\ task[t].pc = "scanP"
    /\ \E raises \in BOOLEAN, failGet \in FaultSets(PositionIds) :
         IF raises
         THEN CycleRaises(t, task[t]) /\ UNCHANGED seen
         ELSE LET list == GetLiquidatablePositions(NumPositions, isOpen, posData, failGet)
              IN /\ Continue(t, [task[t] EXCEPT
                        !.plist = list, !.pc = AfterScan(list, "position")])
                 /\ seen' = [seen EXCEPT !.positions = @ \cup ObservedClosed(failGet)]
                 /\ UNCHANGED <<mainPc, localStats>>
    /\ UNCHANGED <<driver, isRunning, timer, cycle, stats>>
    /\ UNCHANGED ledgerVars
    /\ UNCHANGED pureVars

\* examples/keeper.js processOrders / processPositions: each awaits
\* getKeeperOpportunities(), which scans orders and positions, and keeps the
\* opportunities of its own type.
ExampleScan(t) ==
    /\ driver = "example"
    /\ task[t].pc \in {"scanO", "scanP"}
    /\ \E raises \in BOOLEAN, failGet \in FaultSets(OrderIds), failShould \in FaultSets(OrderIds),
          failPos \in FaultSets(PositionIds) :
         IF raises
         THEN ExampleRejects(t) /\ UNCHANGED seen
         ELSE LET orders == GetExecutableOrders(NumOrders, executed, ready, failGet, failShould)
                  positions == GetLiquidatablePositions(NumPositions, isOpen, posData, failPos)
              IN /\ Continue(t, IF task[t].pc = "scanO"
                                THEN [task[t] EXCEPT !.olist = orders,
                                                     !.pc = AfterScan(orders, "order")]
                                ELSE [task[t] EXCEPT !.plist = positions,
                                                     !.pc = AfterScan(positions, "position")])
                 /\ seen' = [orders |-> seen.orders \cup ObservedExecuted(failGet),
                             positions |-> seen.positions \cup ObservedClosed(failPos)]
                 /\ UNCHANGED <<mainPc, localStats>>
    /\ UNCHANGED <<driver, isRunning, timer, cycle, stats>>
    /\ UNCHANGED ledgerVars
    /\ UNCHANGED pureVars

\* executeKeeperBatch: getKeeperOpportunities() (legacy), whose catch block
\* returns what it has when a read raises, and the slice to maxOperations.
BatchScan(t) ==
    /\ driver = "batch"
    /\ task[t].pc = "scanB"
    /\ LET Opportunities(raises, failGet, failShould, posRaises, failPos) ==
               [orders |-> IF raises THEN <<>>
                           ELSE LegacyOrderOpportunities(1, NumOrders, executed, ready,
                                                         failGet, failShould),
                positions |-> IF raises \/ posRaises THEN <<>>
                              ELSE FindLiquidatablePositions(1, NumPositions, isOpen,
                                                             posData, failPos, <<>>),
                observed |-> IF raises THEN {} ELSE ObservedExecuted(failGet)]
       IN \E found \in {Opportunities(raises, failGet, failShould, posRaises, failPos) :
                            raises \in BOOLEAN, failGet \in FaultSets(OrderIds),
                            failShould \in FaultSets(OrderIds), posRaises \in BOOLEAN,
                            failPos \in FaultSets(PositionIds)} :
            LET batch == Slice(found.orders \o found.positions, task[t].limit)
                olist == SubSeq(batch, 1, Min(Len(batch), Len(found.orders)))
                plist == SubSeq(batch, Len(found.orders) + 1, Len(batch))
            IN /\ Continue(t, [task[t] EXCEPT
                      !.olist = olist, !.plist = plist,
                      !.cut = Len(found.orders) + Len(found.positions) - Len(batch),
                      !.pc = AfterScan(olist, "order")])
               /\ seen' = [seen EXCEPT !.orders = @ \cup found.observed]
    /\ UNCHANGED <<driver, isRunning, timer, cycle, mainPc, stats, localStats>>
    /\ UNCHANGED ledgerVars
    /\ UNCHANGED pureVars

\* executeKeeperBatch: the for loop is past the orders of its batch.
BatchPositions(t) ==
    /\ driver = "batch"
    /\ task[t].pc = "batchP"
    /\ task' = [task EXCEPT ![t].pc = IF task[t].plist = <<>> THEN "report" ELSE "execP"]
    /\ UNCHANGED <<driver, isRunning, timer, cycle, mainPc, stats, localStats, seen>>
    /\ UNCHANGED ledgerVars
    /\ UNCHANGED pureVars

(***************************************************************************)
(* Writing: selfExecuteOrder / executeOrder / liquidatePosition.  The call *)
(* awaits the contract method, which sends the transaction, and then       *)
(* tx.wait(), which yields the receipt.                                    *)
(***************************************************************************)
Kinds == {"order", "position"}

ExecPc(kind) == IF kind = "order" THEN "execO" ELSE "execP"
WaitPc(kind) == IF kind = "order" THEN "waitO" ELSE "waitP"
ListOf(tk, kind) == IF kind = "order" THEN tk.olist ELSE tk.plist
IdxOf(tk, kind) == IF kind = "order" THEN tk.oidx ELSE tk.pidx
Settled(kind, id) == IF kind = "order" THEN executed[id] ELSE ~isOpen[id]
SeenSettled(kind, id) == IF kind = "order" THEN id \in seen.orders ELSE id \in seen.positions

\* How often the body of the for loop calls the write for one opportunity:
\* once, outside executeWithRetry.
WritesPerOpportunity == 1

\* The for loop takes its next opportunity, or is over.
NextPc(tk, kind) ==
    IF IdxOf(tk, kind) < Len(ListOf(tk, kind)) THEN ExecPc(kind)
    ELSE AfterPhase(driver, kind, cycle)

\* The write of coroutine t raised with reason r.
FailAttempt(t, tk, kind, r) ==
    LET failed == [tk EXCEPT !.att.status = "failed", !.att.reason = r]
    IN IF CatchContinues(driver)
       THEN /\ Continue(t, [failed EXCEPT !.results = ResultsOnFailure(@),
                                          !.pc = NextPc(failed, kind)])
            /\ localStats' = LocalOnFailure
            /\ stats' = StatsOnFailure
            /\ UNCHANGED mainPc
       ELSE CycleRaises(t, failed) /\ UNCHANGED stats

\* The coroutine calls the write for its next opportunity: the ledger accepts
\* the transaction, or the call raises.
SubmitWrite(t, kind) ==
    /\ task[t].pc = ExecPc(kind)
    /\ LET id == ListOf(task[t], kind)[IdxOf(task[t], kind) + 1]
           att == [kind |-> kind, id |-> id, status |-> "inflight", reason |-> "none",
                   seen |-> SeenSettled(kind, id), tries |-> WritesPerOpportunity]
           tk == IF kind = "order"
                 THEN [task[t] EXCEPT !.oidx = @ + 1, !.att = att]
                 ELSE [task[t] EXCEPT !.pidx = @ + 1, !.att = att]
       IN \E r \in SubmitResponses(Settled(kind, id)) :
            IF r = "accepted"
            THEN /\ Continue(t, [tk EXCEPT !.pc = WaitPc(kind)])
                 /\ UNCHANGED <<mainPc, localStats, stats>>
            ELSE FailAttempt(t, tk, kind, r)
    /\ UNCHANGED <<driver, isRunning, timer, cycle, seen>>
    /\ UNCHANGED ledgerVars
    /\ UNCHANGED pureVars

\* tx.wait() answers: the receipt counts the execution (liquidation), an
\* error goes to the catch block.
ConfirmWrite(t, kind) ==
    /\ task[t].pc = WaitPc(kind)
    /\ LET id == task[t].att.id
       IN \E r \in ConfirmResponses(Settled(kind, id)) :
            IF r = "ok"
            THEN /\ executed' = IF kind = "order"
                                THEN [executed EXCEPT ![id] = TRUE] ELSE executed
                 /\ isOpen' = IF kind = "position"
                              THEN [isOpen EXCEPT ![id] = FALSE] ELSE isOpen
                 /\ LET done == [task[t] EXCEPT !.att.status = "success"]
                    IN Continue(t, [done EXCEPT !.results = ResultsOnSuccess(@, kind),
                                                !.pc = NextPc(done, kind)])
                 /\ stats' = StatsOnSuccess(kind)
                 /\ localStats' = LocalOnSuccess(kind)
                 /\ UNCHANGED mainPc
            ELSE /\ FailAttempt(t, task[t], kind, r)
                 /\ UNCHANGED <<executed, isOpen>>
    /\ UNCHANGED <<driver, isRunning, timer, cycle, seen>>
    /\ UNCHANGED <<paused, ready, posData>>
    /\ UNCHANGED pureVars

\* The ledger never answers: the promise handleTransaction awaits is never
\* settled, and nothing races it against a timer.
LedgerHangs(t, kind) ==
    /\ task[t].pc = WaitPc(kind)
    /\ task' = [task EXCEPT ![t].pc = "hung"]
    /\ UNCHANGED <<driver, isRunning, timer, cycle, mainPc, stats, localStats, seen>>
    /\ UNCHANGED ledgerVars
    /\ UNCHANGED pureVars

\* The cycle is over: executeKeeperCycle returns its results, the keeper
\* service loop goes to sleep.
Report(t) ==
    /\ task[t].pc = "report"
    /\ task' = [task EXCEPT ![t] = IdleTask]
    /\ UNCHANGED <<driver, isRunning, timer, cycle, mainPc, stats, localStats, seen>>
    /\ UNCHANGED ledgerVars
    /\ UNCHANGED pureVars

\* examples/keeper.js: Promise.all is fulfilled; showStats reads the ledger
\* when something was done or on every tenth cycle, and main sleeps.
ExampleJoin ==
    /\ driver = "example"
    /\ mainPc = "await"
    /\ \A t \in Tasks : task[t].pc = "done"
    /\ \E raises \in BOOLEAN :
         localStats' =
           IF /\ raises
              /\ \/ task["A"].results.executed > 0
                 \/ task["B"].results.liquidated > 0
                 \/ cycle % 10 = 1
           THEN [localStats EXCEPT !.errors = @ + 1]
           ELSE localStats
    /\ mainPc' = "sleep"
    /\ task' = [t \in Tasks |-> IdleTask]
    /\ UNCHANGED <<driver, isRunning, timer, cycle, stats, seen>>
    /\ UNCHANGED ledgerVars
    /\ UNCHANGED pureVars

Env ==
    /\ \/ EnvTogglePause
       \/ \E id \in OrderIds : EnvSettleOrder(id)
       \/ \E id \in PositionIds : EnvClosePosition(id)
    /\ UNCHANGED keeperVars
    /\ UNCHANGED pureVars

KeeperIdle ==
    /\ paused = FALSE
    /\ executed = [id \in OrderIds |-> FALSE]
    /\ ready = [id \in OrderIds |-> FALSE]
    /\ isOpen = [id \in PositionIds |-> TRUE]
    /\ posData = [id \in PositionIds |->
                    [entryPrice |-> 100, currentPrice |-> 21, positionType |-> Long]]
    /\ driver = "cycle"
    /\ isRunning = FALSE
    /\ timer = FALSE
    /\ cycle = 0
    /\ mainPc = "sleep"
    /\ stats = [ordersExecuted |-> 0, positionsLiquidated |-> 0, pricesUpdated |-> 0,
                errors |-> 0]
    /\ localStats = [orders |-> 0, positions |-> 0, errors |-> 0]
    /\ task = [t \in Tasks |-> IdleTask]
    /\ seen = [orders |-> {}, positions |-> {}]

(***************************************************************************)
(* The keeper's switch: startKeeper and stopKeeper called in any order on  *)
(* one KeeperModule, with the timers setInterval has created and           *)
(* clearInterval has not yet cleared.  The legacy class starts one monitor *)
(* per enable flag of its config; its four interval lengths are left at    *)
(* their defaults.                                                         *)
(***************************************************************************)
DefaultCycleInterval == 20000

MonitorOf ==
    [enableOrderExecution |-> "orderExecution", enableLiquidation |-> "liquidationMonitor",
     enablePriceUpdates |-> "priceUpdater", enableHealthCheck |-> "healthMonitor"]

IntervalNames == {"mainCycle"} \cup {MonitorOf[k] : k \in DOMAIN MonitorOf}

\* const defaultConfig = {...}
DefaultConfig(legacy) ==
    IF legacy
    THEN [enableOrderExecution |-> TRUE, enableLiquidation |-> TRUE,
          enablePriceUpdates |-> FALSE, enableHealthCheck |-> TRUE]
    ELSE [cycleInterval |-> DefaultCycleInterval, enableOrderExecution |-> TRUE,
          enableLiquidation |-> TRUE, enableDiagnostics |-> TRUE]

\* {...defaultConfig, ...config}: config holds some of the keys.
Merged(defaultConfig, config) ==
    [k \in DOMAIN defaultConfig |->
        IF k \in DOMAIN config THEN config[k] ELSE defaultConfig[k]]

\* The names startKeeper sets in this.intervals, one setInterval each.
Started(legacy, config) ==
    IF legacy THEN {MonitorOf[k] : k \in {f \in DOMAIN MonitorOf : config[f]}}
    ELSE {"mainCycle"}

\* config with key set to value
With(config, key, value) ==
    [k \in DOMAIN config \cup {key} |-> IF k = key THEN value ELSE config[k]]

\* The configs startKeeper is called with: some of the enable flags, and for
\* the cycle keeper a cycleInterval or none.
KeeperConfigs(legacy) ==
    IF legacy
    THEN UNION {[keys -> BOOLEAN] : keys \in SUBSET DOMAIN MonitorOf}
    ELSE LET flags == UNION {[keys -> BOOLEAN] :
                               keys \in SUBSET {"enableOrderExecution", "enableLiquidation",
                                                "enableDiagnostics"}}
         IN flags \cup {With(c, "cycleInterval", ms) : c \in flags, ms \in 1..MaxUnits}

\* A mutation of AlreadyRunning: startKeeper does not ask isRunning.
AlreadyRunningNever(keeper) == FALSE

\* if (this.isRunning) return false
AlreadyRunning(keeper) == keeper.isRunning

\* new KeeperModule(): config is undefined (the empty record here).
InitSwitch ==
    /\ callIn \in [legacy : BOOLEAN]
    /\ callOut = << [isRunning |-> FALSE, config |-> <<>>, intervals |-> {},
                     live |-> [name \in IntervalNames |-> 0], returned |-> "none"] >>

\* KeeperModule.startKeeper(config)
StartKeeperCall(config) ==
    LET keeper == callOut[1]
        merged == Merged(DefaultConfig(callIn.legacy), config)
        started == Started(callIn.legacy, merged)
    IN /\ callOut' =
            IF AlreadyRunning(keeper) THEN << [keeper EXCEPT !.returned = FALSE] >>
            ELSE << [isRunning |-> TRUE,
                     config |-> merged,
                     intervals |-> keeper.intervals \cup started,
                     live |-> [name \in IntervalNames |->
                                 IF name \in started THEN keeper.live[name] + 1
                                 ELSE keeper.live[name]],
                     returned |-> TRUE] >>
       /\ UNCHANGED callIn

\* KeeperModule.stopKeeper()
StopKeeperCall ==
    LET keeper == callOut[1]
    IN /\ callOut' =
            IF ~keeper.isRunning THEN << [keeper EXCEPT !.returned = FALSE] >>
            ELSE << [keeper EXCEPT !.isRunning = FALSE,
                                   !.intervals = {},
                                   !.live = [name \in IntervalNames |->
                                               IF name \in keeper.intervals
                                               THEN keeper.live[name] - 1
                                               ELSE keeper.live[name]],
                                   !.returned = TRUE] >>
       /\ UNCHANGED callIn

(***************************************************************************)
(* The life of a module: initialize, operations, dispose.  initialize      *)
(* caches the module's contract in a field of its own (routerContract,     *)
(* poolContract); an operation either asks ensureInitialized first         *)
(* (through validateParams or callContract) or goes straight to the cached *)
(* contract.                                                               *)
(***************************************************************************)
OperationsOf ==
    [KeeperModule |-> {"selfExecuteOrder", "liquidatePosition", "executeKeeperCycle",
                       "callContract"},
     RouterModule |-> {"selfExecuteOrder", "liquidatePosition", "cancelOrder", "swapTokens",
                       "callContract"},
     PoolModule |-> {"withdrawETH", "swapTokens", "callContract"}]

\* The operation calls ensureInitialized before its first ledger call.
EnsuresInitialized(operation) == operation \in {"swapTokens", "callContract"}

NoOperation ==
    [operation |-> "none", id |-> 0, initialized |-> FALSE, ledgerCalls |-> 0,
     error |-> "none"]

\* new Module(): initialized = false, and no contract cached yet.
InitModule ==
    /\ callIn \in [module : DOMAIN OperationsOf]
    /\ callOut = << [initialized |-> FALSE, contract |-> FALSE, last |-> NoOperation] >>

\* initialize(context) with a context: the module caches its contract.
Initialize ==
    /\ callOut' = << [callOut[1] EXCEPT !.initialized = TRUE, !.contract = TRUE] >>
    /\ UNCHANGED callIn

\* BaseModule.dispose(): the cached contract stays where it is.
Dispose ==
    /\ callOut[1].initialized
    /\ callOut' = << [callOut[1] EXCEPT !.initialized = FALSE] >>
    /\ UNCHANGED callIn

\* What one operation does up to its first ledger call.  raises: the ledger
\* call, if one is issued, raises.  executeKeeperCycle reads isSystemPaused
\* from the cached contract inside the try block of getSystemStatus, whose
\* catch block turns every error into a skipped cycle.
Outcome(module, operation, id, raises) ==
    LET issued == [operation |-> operation, id |-> id, initialized |-> module.initialized,
                   ledgerCalls |-> 1, error |-> IF raises THEN "ledger" ELSE "none"]
        refused(error) == [issued EXCEPT !.ledgerCalls = 0, !.error = error]
    IN IF EnsuresInitialized(operation)
       THEN IF module.initialized THEN issued ELSE refused("not initialized")
       ELSE IF ~module.contract
            THEN refused(IF operation = "executeKeeperCycle" THEN "none" ELSE "TypeError")
            ELSE IF operation = "executeKeeperCycle"
                 THEN [issued EXCEPT !.error = "none"]
                 ELSE issued

\* One operation of the module is called.
Operate(operation, id, raises) ==
    /\ callOut' = << [callOut[1] EXCEPT !.last = Outcome(callOut[1], operation, id, raises)] >>
    /\ UNCHANGED callIn

(***************************************************************************)
(* EventModule's subscriptions.  A listener is numbered by the call of     *)
(* createSubscription that registered it; registered holds the listeners   *)
(* contract.on has added and contract.off has not removed, subscriptions   *)
(* is the map from subscription id to listener, handled counts the calls   *)
(* of each listener's unsubscribe handle, and now is Date.now().           *)
(***************************************************************************)
SubscriptionNames == {"priceUpdates", "voted"}

\* `${name}_${Date.now()}`
SubscriptionId(name, now) == <<name, now>>

\* The map without the entry of id.
Without(map, id) == [k \in DOMAIN map \ {id} |-> map[k]]

\* new EventModule()
InitEvents ==
    /\ callIn = [module |-> "EventModule"]
    /\ callOut = << [now |-> 0, registered |-> {}, subscriptions |-> <<>>,
                     handled |-> <<>>, last |-> "none"] >>

\* Time passes between two calls.
ClockAdvances ==
    /\ callOut[1].now < MaxUnits
    /\ callOut' = << [callOut[1] EXCEPT !.now = @ + 1, !.last = "none"] >>
    /\ UNCHANGED callIn

\* EventModule.createSubscription(name, contract, filter, callback), with
\* ContractHelpers.subscribeToEvents
CreateSubscription(name) ==
    LET events == callOut[1]
        listener == Len(events.handled) + 1
        subscriptionId == SubscriptionId(name, events.now)
    IN /\ Len(events.handled) < MaxSubscriptions
       /\ callOut' = << [events EXCEPT
              !.registered = @ \cup {listener},
              !.subscriptions = [k \in DOMAIN @ \cup {subscriptionId} |->
                                   IF k = subscriptionId THEN listener ELSE @[k]],
              !.handled = Append(@, 0),
              !.last = "createSubscription"] >>
       /\ UNCHANGED callIn

\* EventModule.unsubscribe(subscriptionId)
Unsubscribe(subscriptionId) ==
    LET events == callOut[1]
    IN /\ callOut' =
            IF subscriptionId \in DOMAIN events.subscriptions
            THEN LET listener == events.subscriptions[subscriptionId]
                 IN << [events EXCEPT
                          !.registered = @ \ {listener},
                          !.handled[listener] = @ + 1,
                          !.subscriptions = Without(@, subscriptionId),
                          !.last = "unsubscribe"] >>
            ELSE << [events EXCEPT !.last = "unsubscribe"] >>
       /\ UNCHANGED callIn

\* EventModule.unsubscribeAll()
UnsubscribeAll ==
    LET events == callOut[1]
        listeners == {events.subscriptions[k] : k \in DOMAIN events.subscriptions}
    IN /\ callOut' = << [events EXCEPT
              !.registered = @ \ listeners,
              !.handled = [l \in DOMAIN @ |-> IF l \in listeners THEN @[l] + 1 ELSE @[l]],
              !.subscriptions = <<>>,
              !.last = "unsubscribeAll"] >>
       /\ UNCHANGED callIn

(***************************************************************************)
(* EventModule's event cache.  An event is the serial number of its        *)
(* arrival; eventHistory is the map from key to cached events, and arrived *)
(* keeps, per key, every event cacheEvents was ever handed.                *)
(***************************************************************************)
CacheLimit == 1000

ContractNames == {"Router", "Oracle"}
EventNames == {"OrderExecuted", "PriceUpdated"}

\* The lengths of the arrays cacheEvents is handed.
BatchLengths == {1, CacheLimit \div 2 + 1, CacheLimit + 1}

\* `${contractName}_${eventName}`
CacheKey(contractName, eventName) == contractName \o "_" \o eventName

\* A mutation of KeepLast: the oldest events are kept.
KeepFirst(cached) ==
    IF Len(cached) > CacheLimit THEN SubSeq(cached, 1, CacheLimit) ELSE cached

\* if (cached.length > 1000) cached.splice(0, cached.length - 1000)
KeepLast(cached) ==
    IF Len(cached) > CacheLimit
    THEN SubSeq(cached, Len(cached) - CacheLimit + 1, Len(cached))
    ELSE cached

\* new EventModule(): eventHistory is an empty map.
InitCache ==
    /\ callIn = [calls |-> 0, events |-> 0]
    /\ callOut = << [eventHistory |-> <<>>, arrived |-> <<>>] >>

\* EventModule.cacheEvents(contractName, eventName, events), events being the
\* next length arrivals.
CacheEvents(contractName, eventName, length) ==
    LET key == CacheKey(contractName, eventName)
        events == [i \in 1..length |-> callIn.events + i]
        Entry(map) == IF key \in DOMAIN map THEN map[key] ELSE <<>>
        Set(map, value) == [k \in DOMAIN map \cup {key} |-> IF k = key THEN value ELSE map[k]]
    IN /\ callIn.calls < MaxCalls
       /\ callIn' = [calls |-> callIn.calls + 1, events |-> callIn.events + length]
       /\ callOut' = << [eventHistory |-> Set(callOut[1].eventHistory,
                                              KeepLast(Entry(callOut[1].eventHistory) \o events)),
                         arrived |-> Set(callOut[1].arrived,
                                         Entry(callOut[1].arrived) \o events)] >>

(***************************************************************************)
(* A price watcher of createPriceWatcher on one token.  The interval fires *)
(* whether or not an earlier callback still awaits getLatestPrices, so two *)
(* callbacks are followed; price is the oracle's price, lastPrice the      *)
(* entry of watcherInfo.lastPrices (0: none), invoked counts the calls of  *)
(* the user's callback and late those made after stop().                   *)
(***************************************************************************)
\* createPriceWatcher(tokenAddresses, callback, interval) has returned.
InitWatcher ==
    /\ callIn \in [price : 1..MaxUnits]
    /\ callOut = << [active |-> TRUE, watcher |-> TRUE, lastPrice |-> 0, ticks |-> 0,
                     awaiting |-> [t \in Tasks |-> FALSE], invoked |-> 0, late |-> 0] >>

\* The oracle's price moves.
PriceMoves(price) ==
    /\ price # callIn.price
    /\ callIn' = [callIn EXCEPT !.price = price]
    /\ UNCHANGED callOut

\* The interval fires: the callback clears the interval when the watcher is
\* no longer active, and otherwise awaits getLatestPrices.
WatcherTick(t) ==
    LET info == callOut[1]
    IN /\ info.watcher
       /\ info.ticks < MaxTicks
       /\ ~info.awaiting[t]
       /\ callOut' = IF ~info.active
                     THEN << [info EXCEPT !.watcher = FALSE] >>
                     ELSE << [info EXCEPT !.ticks = @ + 1, !.awaiting[t] = TRUE] >>
       /\ UNCHANGED callIn

\* The callback goes on past its await whatever has happened meanwhile.
Resumes(info) == TRUE

\* getLatestPrices answers, or raises: the changes against lastPrices are
\* handed to the user's callback.
PricesArrive(t, raises) ==
    LET info == callOut[1]
        changed == info.lastPrice # 0 /\ info.lastPrice # callIn.price
    IN /\ info.awaiting[t]
       /\ callOut' =
            IF raises \/ ~Resumes(info) THEN << [info EXCEPT !.awaiting[t] = FALSE] >>
            ELSE << [info EXCEPT
                       !.awaiting[t] = FALSE,
                       !.lastPrice = callIn.price,
                       !.invoked = IF changed THEN @ + 1 ELSE @,
                       !.late = IF changed /\ ~info.active THEN @ + 1 ELSE @] >>
       /\ UNCHANGED callIn

\* watcherInfo.stop()
StopWatcher ==
    /\ callOut[1].active
    /\ callOut' = << [callOut[1] EXCEPT !.active = FALSE, !.watcher = FALSE] >>
    /\ UNCHANGED callIn

(***************************************************************************)
(* Claims about the liquidation predicates (SpecLiq).                      *)
(***************************************************************************)
\* An implementation flags the position when it answers shouldLiquidate = true.
Flagged(answer) == ~answer.threw /\ answer.shouldLiquidate

\* The loss of the position is at least pct percent of its entry price.
LossAtLeast(pos, pct) ==
    IF pos.positionType = Long
    THEN /\ pos.currentPrice < pos.entryPrice
         /\ (pos.entryPrice - pos.currentPrice) * 100 >= pct * pos.entryPrice
    ELSE /\ pos.currentPrice > pos.entryPrice
         /\ (pos.currentPrice - pos.entryPrice) * 100 >= pct * pos.entryPrice

\* The position is not at a loss.
NotAtLoss(pos) ==
    IF pos.positionType = Long
    THEN pos.currentPrice >= pos.entryPrice
    ELSE pos.currentPrice <= pos.entryPrice

\* C8: for a position with a positive entry price, every implementation of the
\* predicate flags it liquidatable if and only if its loss percent is >= 80.
C8_LiquidatableIffLossAtThreshold ==
    (liqOut # <<>> /\ liqIn.entryPrice > 0) =>
        \A impl \in Implementations :
            Flagged(liqOut[1][impl]) <=> LossAtLeast(liqIn, LiquidationPnlPercent)

\* C9: a position that is not at a loss is flagged by no implementation, and
\* the pnl computed for it is not a loss, however large the profit.
C9_NoLossNeverLiquidatable ==
    (liqOut # <<>> /\ NotAtLoss(liqIn)) =>
        \A impl \in Implementations :
            /\ ~Flagged(liqOut[1][impl])
            /\ ~FNegative(liqOut[1][impl].pnl)

\* C9 witness: a Long position at ten times its entry price was evaluated and
\* KeeperModule.formatPositionData answered for it.
C9_Witness ==
    /\ liqOut # <<>>
    /\ liqIn = [entryPrice |-> 10, currentPrice |-> 100, positionType |-> Long]
    /\ ~liqOut[1].keeper.threw
    /\ liqOut[1].keeper.pnl = FNum(9000, 10)

\* C10: a position whose entry price is 0 is rejected with an error by every
\* implementation and is flagged liquidatable by none.
C10_ZeroEntryRejected ==
    (liqOut # <<>> /\ liqIn.entryPrice = 0) =>
        \A impl \in Implementations :
            liqOut[1][impl].threw /\ ~liqOut[1][impl].shouldLiquidate

(***************************************************************************)
(* Claims about the order scans (SpecScan).                                *)
(***************************************************************************)
\* The elements of a set of ids in ascending order.
AscendingSeq(S) ==
    CHOOSE s \in [1..Cardinality(S) -> S] :
        \A i, j \in 1..Cardinality(S) : i < j => s[i] < s[j]

\* The ids both of whose reads succeed, that are unexecuted and that the
\* ledger says should be executed.
ExpectedExecutable(in) ==
    {id \in ScanIds : /\ id \notin in.failGet
                      /\ id \notin in.failShould
                      /\ ~in.executed[id]
                      /\ in.ready[id]}

\* C4: whatever reads fail, every scan returns, in id order, exactly the ids
\* whose reads succeeded, that are unexecuted and that should be executed.
C4_ScanSkipsFailedLookups ==
    scanOut # <<>> =>
        \A impl \in {"keeper", "legacy", "router"} :
            scanOut[1][impl] = AscendingSeq(ExpectedExecutable(scanIn))

\* C4 witness: the read of order 2 failed and the scan returned orders 1 and 3.
C4_Witness ==
    /\ scanOut # <<>>
    /\ scanIn.failGet = {2}
    /\ scanIn.failShould = {}
    /\ scanOut[1].keeper = <<1, 3>>

(***************************************************************************)
(* Claims about the keeper cycle (Spec).                                   *)
(***************************************************************************)
\* The coroutines that have a write in flight: sent, receipt not yet obtained.
InFlight == {t \in Tasks : task[t].pc \in {"waitO", "waitP"}}

\* The loop over the orders (positions) of coroutine tk is behind it.
OrdersOver(tk) == tk.pc \in {"scanP", "execP", "waitP", "report", "done"}
PositionsOver(tk) == tk.pc \in {"report", "done"}

\* C1: a cycle that began while the ledger was paused has issued no write.
C1_PausedCycleIssuesNoWrite ==
    \A t \in Tasks : task[t].sawPaused => task[t].att.kind = "none"

\* C32: a cycle in which the paused status could not be read issues no
\* write.
C32_UnreadStatusIssuesNoWrite ==
    \A t \in Tasks : task[t].statusRaised => task[t].att.kind = "none"

\* C2: at most one write of the keeper is in flight at any time.
C2_OneWriteInFlight == Cardinality(InFlight) <= 1

\* C3: once a cycle has begun on its orders (positions), it leaves them only
\* after attempting every one of them, whatever attempts failed; no failure
\* ends the driver, and a started timer stays set.
C3_FailureSkipsNothing ==
    /\ mainPc # "exited"
    /\ (driver = "cycle" /\ isRunning) => timer
    /\ \A t \in Tasks :
         /\ (OrdersOver(task[t]) /\ task[t].oidx > 0) =>
                task[t].oidx = Len(task[t].olist)
         /\ (PositionsOver(task[t]) /\ task[t].pidx > 0) =>
                task[t].pidx = Len(task[t].plist)

\* C3 witness: in executeKeeperCycle the first order failed, which the cycle
\* counted, and the write for the second order is in flight.
C3_Witness ==
    /\ driver = "cycle"
    /\ \E t \in Tasks :
         /\ task[t].pc = "waitO"
         /\ task[t].oidx = 2
         /\ task[t].results.errors = 1
         /\ task[t].results.executed = 0

\* C5: a write for an order that the ledger refuses as already executed ends
\* with the outcome AlreadyDone.
C5_ExecutedOrderYieldsAlreadyDone ==
    \A t \in Tasks :
        (task[t].att.kind = "order" /\ task[t].att.reason = "settled") =>
            task[t].att.status = "alreadyDone"

\* C6: a write that the ledger refuses because a competitor settled its target
\* is not reported as failed.
C6_SettledByCompetitorIsNoError ==
    \A t \in Tasks :
        task[t].att.reason = "settled" => task[t].att.status # "failed"

\* C7: no write is sent for an order or position that a scan of the keeper
\* has already read as executed or closed.
C7_NoWriteAfterObservedSettled ==
    \A t \in Tasks : ~task[t].att.seen

(***************************************************************************)
(* Claims about the KeeperModule drivers, one cycle at a time (SpecSeq).   *)
(***************************************************************************)
\* The coroutines whose write of the kind obtains its receipt in this step.
Receipts(kind) ==
    {t \in Tasks : /\ task[t].pc = WaitPc(kind)
                   /\ task'[t].att.status = "success"}

\* C11: a step adds to ordersExecuted (positionsLiquidated) exactly the number
\* of order (position) receipts obtained in it: one for a receipt, nothing for
\* a write that fails when sent or when confirmed, nothing for any other step.
C11_CountersCountReceipts ==
    [][/\ stats'.ordersExecuted = stats.ordersExecuted + Cardinality(Receipts("order"))
       /\ stats'.positionsLiquidated =
              stats.positionsLiquidated + Cardinality(Receipts("position"))]_vars

\* C11 witness: of two orders attempted in one cycle the first was executed
\* and the second failed, and ordersExecuted is 1.
C11_Witness ==
    /\ stats.ordersExecuted = 1
    /\ \E t \in Tasks :
         /\ task[t].oidx = 2
         /\ task[t].att.kind = "order"
         /\ task[t].att.status = "failed"
         /\ ~executed[task[t].att.id]

\* C12: whenever an attempt has failed with an unknown error, the KeeperStats
\* error counter has counted at least one error.
C12_UnknownFailureCounted ==
    \A t \in Tasks :
        (task[t].att.status = "failed" /\ task[t].att.reason = "unknown") =>
            stats.errors >= 1

\* C13: an attempt given up after a network error has sent its write twice.
C13_TransientFailureRetriedOnce ==
    \A t \in Tasks :
        (task[t].att.status = "failed" /\ task[t].att.reason = "transient") =>
            task[t].att.tries = 2

\* C14: position discovery and liquidation run on even ticks only.
C14_PositionsEverySecondTick ==
    \A t \in Tasks :
        task[t].pc \in {"scanP", "execP", "waitP"} => cycle % 2 = 0

\* C15: within one cycle, every opportunity the cycle's scan returned has had
\* its write submitted when the cycle reports.
Reporting(tk) == tk.pc \in {"report", "done"}
Attempted(tk) == tk.oidx + tk.pidx
Discovered(tk) == Len(tk.olist) + Len(tk.plist) + tk.cut
Successful(tk) == tk.results.executed + tk.results.liquidated

\* The ids of list ascend.
Ascending(list) == \A i \in 1..Len(list) - 1 : list[i] < list[i + 1]

C16_NoCycleBeginsAfterStop ==
    [][/\ (driver = "cycle" /\ ~isRunning) => cycle' = cycle
       /\ (driver = "cycle" /\ isRunning /\ ~isRunning') => task' = task]_vars

C16_Witness ==
    /\ driver = "cycle"
    /\ ~isRunning
    /\ ~timer
    /\ cycle = 1
    /\ task["A"].pc = "waitO"

\* C19: no step of the keeper (startKeeper, stopKeeper, a tick, a scan, an
\* execution) lowers a counter of KeeperStats.
C19_CountersNeverDecrease ==
    [][/\ stats'.ordersExecuted >= stats.ordersExecuted
       /\ stats'.positionsLiquidated >= stats.positionsLiquidated
       /\ stats'.pricesUpdated >= stats.pricesUpdated
       /\ stats'.errors >= stats.errors]_vars

C19_Witness ==
    /\ driver = "cycle"
    /\ ~isRunning
    /\ stats.ordersExecuted >= 1
    /\ stats.positionsLiquidated >= 1

\* C20: a step of a coroutine that is in one of its scans changes neither the
\* ledger nor a field of KeeperStats.
ScanPcs == {"scanO", "scanAll", "scanP", "scanB"}
Scanning == {t \in Tasks : task[t].pc \in ScanPcs /\ task'[t] # task[t]}
C20_ScanningOnlyReads ==
    [][Scanning # {} =>
         /\ paused' = paused
         /\ executed' = executed
         /\ ready' = ready
         /\ isOpen' = isOpen
         /\ posData' = posData
         /\ stats' = stats]_vars

C20_Witness ==
    \E t \in Tasks :
        /\ task[t].pc = "execO"
        /\ task[t].oidx = 0
        /\ task[t].olist # <<>>
        /\ stats.ordersExecuted = 1

\* C18: at most one cycle, and within it one phase, is in progress at a time.
InProgress == {t \in Tasks : task[t].pc \notin {"idle", "done"}}
C18_OneCycleInProgress == Cardinality(InProgress) <= 1

\* The steps coroutine t of a KeeperModule driver can take.
TaskStep(t) ==
    \/ CheckStatus(t)
    \/ ScanOrders(t)
    \/ LoopGetAllOrders(t)
    \/ ScanPositions(t)
    \/ \E kind \in Kinds : SubmitWrite(t, kind)
    \/ \E kind \in Kinds : ConfirmWrite(t, kind)
    \/ Report(t)

\* C17: a ledger call that is never answered surfaces as a failure, so the
\* cycle that made it can always go on.
C17_UnansweredCallSurfaces ==
    \A t \in Tasks : task[t].pc = "hung" => ENABLED TaskStep(t)

(***************************************************************************)
(* Claims about the Calculator (SpecCalc, SpecAmm).                        *)
(***************************************************************************)
\* C22: the estimated reward of an order opportunity is the fee percentage
\* of the order's input amount.
C22_RewardIsFeeOfInput ==
    callOut # <<>> =>
        Same(callOut[1].reward, CalculateFee(callIn.amount, OrderFeePercent))

\* Two amounts in, the first positive and the second larger, into a pool
\* of positive reserves.
PositivePool ==
    /\ callOut # <<>>
    /\ Less(Whole(0), callIn.reserveIn)
    /\ Less(Whole(0), callIn.reserveOut)
    /\ Less(Whole(0), callIn.amount)

RoundTripTolerance == Frac(1, 100)

RoundTripMargin == Frac(1, 1000)

WithinMargin ==
    /\ AtLeast(callIn.amount, RoundTripMargin)
    /\ AtLeast(callOut[1].out, RoundTripMargin)
    /\ AtLeast(Minus(callIn.reserveOut, callOut[1].out), RoundTripMargin)

C25_ExampleAmountOut ==
    (callOut # <<>> /\ callIn \in ExampleInputs) =>
        Same(ToFixed(callOut[1].out, 4), Frac(199401, 10000))

\* C25 as the code has it: the example's amount out is 19.7432 to 4
\* decimals, the constant-product amount with the fee taken off the input.
C25_ExampleAmountOutCode ==
    (callOut # <<>> /\ callIn \in ExampleInputs) =>
        Same(ToFixed(callOut[1].out, 4), Frac(197432, 10000))

C25_Witness ==
    /\ callOut # <<>>
    /\ callIn \in ExampleInputs
    /\ callOut[1].out = Frac(19743161, 1000000)

\* C26: for positive reserves the price impact is at least 0, is 0 for
\* amountIn = 0, and does not decrease when amountIn grows.
C26_PriceImpactFromZero ==
    (/\ callOut # <<>>
     /\ Less(Whole(0), callIn.reserveIn)
     /\ Less(Whole(0), callIn.reserveOut)) =>
        /\ AtLeast(callOut[1].impact, Whole(0))
        /\ Same(callIn.amount, Whole(0)) => Same(callOut[1].impact, Whole(0))
        /\ AtLeast(callIn.other, callIn.amount) =>
               AtLeast(callOut[1].impactOther, callOut[1].impact)

\* A value that a string of PriceDecimals fractional digits can carry.
FixedDecimal(x) == IsNum(x) /\ Pow10(PriceDecimals) % x.d = 0

DrainingRequest ==
    \/ Same(callIn.reserveIn, Whole(0))
    \/ Same(callIn.reserveOut, Whole(0))
    \/ AtLeast(callIn.amount, callIn.reserveOut)

\* C28: calculateAmountIn returns 0 when a reserve is 0 or the amount out
\* asked for is at least reserveOut, never a negative or infinite amount.
C28_AmountInOfDrainingRequest ==
    (callOut # <<>> /\ DrainingRequest) => Same(callOut[1].inFor, Whole(0))

\* A request for the whole of a positive reserve, at a fee of 100%.
C28_Witness ==
    /\ callOut # <<>>
    /\ Less(Whole(0), callIn.reserveIn)
    /\ Less(Whole(0), callIn.reserveOut)
    /\ callIn.amount = callIn.reserveOut
    /\ callIn.fee = Whole(100)
    /\ callOut[1].inFor = Whole(0)

\* C29: calculateAmountOut returns 0 whenever reserveIn or reserveOut is 0,
\* for every amountIn and fee.
C29_AmountOutOfEmptyPool ==
    (/\ callOut # <<>>
     /\ \/ Same(callIn.reserveIn, Whole(0))
        \/ Same(callIn.reserveOut, Whole(0))) =>
        Same(callOut[1].out, Whole(0))

\* A positive amount into a pool whose reserve in is 0.
C29_Witness ==
    /\ callOut # <<>>
    /\ callIn.reserveIn = Whole(0)
    /\ Less(Whole(0), callIn.reserveOut)
    /\ Less(Whole(0), callIn.amount)
    /\ callOut[1].out = Whole(0)

(***************************************************************************)
(* Claims about the minimum-output guard (SpecGuard).                      *)
(***************************************************************************)
\* C31: the minimum output submitted is the ledger's quote for exactly the
\* submitted input in wei, scaled by (1 - slippage/100): a non-negative
\* amount that is not larger than the quote.
C31_GuardIsScaledQuote ==
    callOut # <<>> =>
        LET quote == LedgerGetAmountOut(callOut[1].amountInWei, callIn.rate)
            scaled == Times(Whole(quote.m),
                            Minus(Whole(1), Hundredth(callOut[1].slippage)))
        IN /\ callOut[1].quotedFor = callOut[1].amountInWei
           /\ IsNum(callOut[1].amountOutMin)
           /\ Same(callOut[1].amountOutMin, scaled)
           /\ AtLeast(callOut[1].amountOutMin, Whole(0))
           /\ AtLeast(Whole(quote.m), callOut[1].amountOutMin)

(***************************************************************************)
(* Claims about the bounded-retry helpers (SpecRetry).                     *)
(***************************************************************************)
\* C30: a bounded-retry helper invokes the operation at most maxRetries
\* times, settles with the first success without a further attempt, settles
\* with a failure after the maxRetries-th failed attempt, and has settled
\* when it has run to its end, for every maxRetries >= 0.
C30_RetryBoundedAndSettles ==
    callOut # <<>> =>
        /\ callOut[1].calls <= callIn.maxRetries
        /\ callOut[1].outcome = "resolved" => callOut[1].failed = callOut[1].calls - 1
        /\ callOut[1].outcome = "rejected" => callOut[1].failed = callIn.maxRetries
        /\ callOut[1].pc = "returned" => callOut[1].outcome # "pending"

(***************************************************************************)
(* Claims about the batch price updates (SpecPrices).                      *)
(***************************************************************************)
\* C21: no batch price update submitted to the ledger carries more than
\* MaxBatchSize tokens, on any path.
C21_BatchWithinMaximum ==
    callOut # <<>> => (callOut[1].submitted => callOut[1].tokens <= MaxBatchSize)

(***************************************************************************)
(* Claims about the keeper's switch (SpecSwitch).                          *)
(***************************************************************************)
\* C33: after any sequence of startKeeper and stopKeeper calls at most one
\* timer of each name, so at most one 'mainCycle' timer, is active and only
\* while isRunning is true; startKeeper on a running keeper returns false
\* without creating a timer or changing the config, and stopKeeper on a
\* stopped keeper returns false.
C33_SwitchIsIdempotent ==
    /\ [](LET keeper == callOut[1]
          IN \A name \in IntervalNames :
               /\ keeper.live[name] <= 1
               /\ keeper.live[name] > 0 => keeper.isRunning
               /\ keeper.live[name] > 0 <=> name \in keeper.intervals)
    /\ [][LET keeper == callOut[1]
              after == callOut'[1]
          IN /\ (keeper.isRunning /\ after.isRunning) =>
                    /\ after.returned = FALSE
                    /\ after.config = keeper.config
                    /\ after.live = keeper.live
                    /\ after.intervals = keeper.intervals
             /\ (~keeper.isRunning /\ ~after.isRunning) =>
                    /\ after.returned = FALSE
                    /\ after.live = keeper.live]_vars

\* startKeeper was called on the running cycle keeper.
C33_Witness ==
    /\ ~callIn.legacy
    /\ callOut[1].isRunning
    /\ callOut[1].returned = FALSE
    /\ callOut[1].live["mainCycle"] = 1

(***************************************************************************)
(* Claims about the life of a module (SpecModule).                         *)
(***************************************************************************)
\* C35: an operation called after dispose() or before initialize() issues no
\* ledger call and fails with the 'not initialized' error.
C35_UninitializedIssuesNoCall ==
    LET last == callOut[1].last
    IN (last.operation # "none" /\ ~last.initialized) =>
           /\ last.ledgerCalls = 0
           /\ last.error = "not initialized"

(***************************************************************************)
(* Claims about EventModule (SpecEvents).                                  *)
(***************************************************************************)
\* C36: every listener registered and not yet removed has an entry of its own
\* in the subscriptions map, unsubscribeAll leaves no listener registered, and
\* the unsubscribe handle of a listener is called once when it is removed and
\* never otherwise.
C36_NoListenerLeaks ==
    LET events == callOut[1]
    IN /\ \A listener \in events.registered :
            Cardinality({k \in DOMAIN events.subscriptions :
                            events.subscriptions[k] = listener}) = 1
       /\ events.last = "unsubscribeAll" => events.registered = {}
       /\ \A listener \in DOMAIN events.handled :
            events.handled[listener] = IF listener \in events.registered THEN 0 ELSE 1

\* C37: the cached history of a key holds at most 1000 events, exactly the
\* most recent ones the key was handed, in arrival order; what is cached
\* under one key does not change what is cached under another.
C37_CacheKeepsMostRecent ==
    LET cache == callOut[1]
    IN /\ DOMAIN cache.eventHistory = DOMAIN cache.arrived
       /\ \A key \in DOMAIN cache.eventHistory :
            LET cached == cache.eventHistory[key]
                all == cache.arrived[key]
            IN /\ Len(cached) = Min(CacheLimit, Len(all))
               /\ cached = SubSeq(all, Len(all) - Len(cached) + 1, Len(all))

\* One key has been handed more than 1000 events, another fewer.
C37_Witness ==
    LET cache == callOut[1]
    IN /\ \E key \in DOMAIN cache.arrived : Len(cache.arrived[key]) > CacheLimit
       /\ \E key \in DOMAIN cache.arrived :
            /\ Len(cache.arrived[key]) < CacheLimit
            /\ cache.eventHistory[key][1] > CacheLimit

(***************************************************************************)
(* Claims about the price watcher (SpecWatcher).                           *)
(***************************************************************************)
\* C38: once stop() of a price watcher has been called its callback is not
\* invoked again, also when a tick was awaiting the prices at that moment.
C38_StoppedWatcherIsSilent == callOut[1].late = 0

(***************************************************************************)
(* Specifications.                                                         *)
(***************************************************************************)
\* Outside its own specification a pure function is not evaluated.
LiqIdle ==
    /\ liqIn = [entryPrice |-> 0, currentPrice |-> 0, positionType |-> Long]
    /\ liqOut = <<>>
CallIdle ==
    /\ callIn = [path |-> "none"]
    /\ callOut = <<>>
ScanIdle ==
    /\ scanIn = [executed |-> [id \in ScanIds |-> FALSE], ready |-> [id \in ScanIds |-> FALSE],
                 failGet |-> {}, failShould |-> {}]
    /\ scanOut = <<>>

SpecLiqInit == InitLiq /\ ScanIdle /\ CallIdle /\ KeeperIdle
SpecLiqNext == EvaluateLiquidation /\ UNCHANGED <<scanVars, callVars, ledgerVars, keeperVars>>
SpecLiq == SpecLiqInit /\ [][SpecLiqNext]_vars

SpecScanInit == InitScan /\ LiqIdle /\ CallIdle /\ KeeperIdle
SpecScanNext == RunScans /\ UNCHANGED <<liqVars, callVars, ledgerVars, keeperVars>>
SpecScan == SpecScanInit /\ [][SpecScanNext]_vars

SpecCalcInit == InitCalc /\ LiqIdle /\ ScanIdle /\ KeeperIdle
SpecCalcNext == Calculate /\ UNCHANGED <<liqVars, scanVars, ledgerVars, keeperVars>>
SpecCalc == SpecCalcInit /\ [][SpecCalcNext]_vars

SpecAmmInit == InitAmm /\ LiqIdle /\ ScanIdle /\ KeeperIdle
SpecAmmNext == Swap /\ UNCHANGED <<liqVars, scanVars, ledgerVars, keeperVars>>
SpecAmm == SpecAmmInit /\ [][SpecAmmNext]_vars

SpecRetryInit == InitRetry /\ LiqIdle /\ ScanIdle /\ KeeperIdle
SpecRetryNext ==
    \/ RetryStart /\ UNCHANGED <<liqVars, scanVars, ledgerVars, keeperVars>>
    \/ RetryInvoke /\ UNCHANGED <<liqVars, scanVars, ledgerVars, keeperVars>>
    \/ RetryLoopEnds /\ UNCHANGED <<liqVars, scanVars, ledgerVars, keeperVars>>
    \/ OperationFulfils /\ UNCHANGED <<liqVars, scanVars, ledgerVars, keeperVars>>
    \/ OperationRaises /\ UNCHANGED <<liqVars, scanVars, ledgerVars, keeperVars>>
    \/ DelayElapses /\ UNCHANGED <<liqVars, scanVars, ledgerVars, keeperVars>>
SpecRetry == SpecRetryInit /\ [][SpecRetryNext]_vars

SpecGuardInit == InitGuard /\ LiqIdle /\ ScanIdle /\ KeeperIdle
SpecGuardNext == SubmitGuard /\ UNCHANGED <<liqVars, scanVars, ledgerVars, keeperVars>>
SpecGuard == SpecGuardInit /\ [][SpecGuardNext]_vars

SpecSwitchInit == InitSwitch /\ LiqIdle /\ ScanIdle /\ KeeperIdle
SpecSwitchNext ==
    \/ /\ \E config \in KeeperConfigs(callIn.legacy) : StartKeeperCall(config)
       /\ UNCHANGED <<liqVars, scanVars, ledgerVars, keeperVars>>
    \/ StopKeeperCall /\ UNCHANGED <<liqVars, scanVars, ledgerVars, keeperVars>>
SpecSwitch == SpecSwitchInit /\ [][SpecSwitchNext]_vars

SpecModuleInit == InitModule /\ LiqIdle /\ ScanIdle /\ KeeperIdle
SpecModuleNext ==
    \/ Initialize /\ UNCHANGED <<liqVars, scanVars, ledgerVars, keeperVars>>
    \/ Dispose /\ UNCHANGED <<liqVars, scanVars, ledgerVars, keeperVars>>
    \/ /\ \E operation \in OperationsOf[callIn.module], id \in OrderIds, raises \in BOOLEAN :
            Operate(operation, id, raises)
       /\ UNCHANGED <<liqVars, scanVars, ledgerVars, keeperVars>>
SpecModule == SpecModuleInit /\ [][SpecModuleNext]_vars

SpecEventsInit == InitEvents /\ LiqIdle /\ ScanIdle /\ KeeperIdle
SpecEventsNext ==
    \/ ClockAdvances /\ UNCHANGED <<liqVars, scanVars, ledgerVars, keeperVars>>
    \/ /\ \E name \in SubscriptionNames : CreateSubscription(name)
       /\ UNCHANGED <<liqVars, scanVars, ledgerVars, keeperVars>>
    \/ /\ \E name \in SubscriptionNames, at \in 0..MaxUnits :
            Unsubscribe(SubscriptionId(name, at))
       /\ UNCHANGED <<liqVars, scanVars, ledgerVars, keeperVars>>
    \/ UnsubscribeAll /\ UNCHANGED <<liqVars, scanVars, ledgerVars, keeperVars>>
SpecEvents == SpecEventsInit /\ [][SpecEventsNext]_vars

SpecCacheInit == InitCache /\ LiqIdle /\ ScanIdle /\ KeeperIdle
SpecCacheNext ==
    /\ \E contractName \in ContractNames, eventName \in EventNames, length \in BatchLengths :
         CacheEvents(contractName, eventName, length)
    /\ UNCHANGED <<liqVars, scanVars, ledgerVars, keeperVars>>
SpecCache == SpecCacheInit /\ [][SpecCacheNext]_vars

SpecWatcherInit == InitWatcher /\ LiqIdle /\ ScanIdle /\ KeeperIdle
SpecWatcherNext ==
    \/ /\ \E price \in 1..MaxUnits : PriceMoves(price)
       /\ UNCHANGED <<liqVars, scanVars, ledgerVars, keeperVars>>
    \/ /\ \E t \in Tasks : WatcherTick(t)
       /\ UNCHANGED <<liqVars, scanVars, ledgerVars, keeperVars>>
    \/ /\ \E t \in Tasks, raises \in BOOLEAN : PricesArrive(t, raises)
       /\ UNCHANGED <<liqVars, scanVars, ledgerVars, keeperVars>>
    \/ StopWatcher /\ UNCHANGED <<liqVars, scanVars, ledgerVars, keeperVars>>
SpecWatcher == SpecWatcherInit /\ [][SpecWatcherNext]_vars

SpecPricesInit == InitPrices /\ LiqIdle /\ ScanIdle /\ KeeperIdle
SpecPricesNext == UpdatePrices /\ UNCHANGED <<liqVars, scanVars, ledgerVars, keeperVars>>
SpecPrices == SpecPricesInit /\ [][SpecPricesNext]_vars

Init == InitLedger /\ InitKeeper /\ LiqIdle /\ ScanIdle /\ CallIdle
Next ==
    \/ StartKeeper
    \/ StopKeeper
    \/ \E t \in Tasks : TimerTick(t)
    \/ LoopTick
    \/ ExampleTick
    \/ \E t \in Tasks : CheckStatus(t)
    \/ \E t \in Tasks : ScanOrders(t)
    \/ \E t \in Tasks : LoopGetAllOrders(t)
    \/ \E t \in Tasks : ScanPositions(t)
    \/ \E t \in Tasks : ExampleScan(t)
    \/ \E t \in Tasks, kind \in Kinds : SubmitWrite(t, kind)
    \/ \E t \in Tasks, kind \in Kinds : ConfirmWrite(t, kind)
    \/ \E t \in Tasks : Report(t)
    \/ ExampleJoin
    \/ LegacyStartKeeper
    \/ LegacyStopKeeper
    \/ BatchCall
    \/ \E t \in Tasks : BatchScan(t)
    \/ \E t \in Tasks : BatchPositions(t)
    \/ Env
Spec == Init /\ [][Next]_vars

\* The drivers built on KeeperModule when every cycle returns before the next
\* tick: one coroutine, against the same ledger.
SeqInit == Init /\ driver \in {"cycle", "loop"}
SeqNext ==
    \/ StartKeeper
    \/ StopKeeper
    \/ TimerTick("A")
    \/ LoopTick
    \/ \E t \in Tasks : CheckStatus(t)
    \/ \E t \in Tasks : ScanOrders(t)
    \/ \E t \in Tasks : LoopGetAllOrders(t)
    \/ \E t \in Tasks : ScanPositions(t)
    \/ \E t \in Tasks, kind \in Kinds : SubmitWrite(t, kind)
    \/ \E t \in Tasks, kind \in Kinds : ConfirmWrite(t, kind)
    \/ \E t \in Tasks : Report(t)
    \/ Env
SpecSeq == SeqInit /\ [][SeqNext]_vars

\* The same drivers against a ledger that may leave a transaction unanswered.
HangNext ==
    \/ StartKeeper
    \/ StopKeeper
    \/ TimerTick("A")
    \/ LoopTick
    \/ \E t \in Tasks : CheckStatus(t)
    \/ \E t \in Tasks : ScanOrders(t)
    \/ \E t \in Tasks : LoopGetAllOrders(t)
    \/ \E t \in Tasks : ScanPositions(t)
    \/ \E t \in Tasks, kind \in Kinds : SubmitWrite(t, kind)
    \/ \E t \in Tasks, kind \in Kinds : ConfirmWrite(t, kind)
    \/ \E t \in Tasks, kind \in Kinds : LedgerHangs(t, kind)
    \/ \E t \in Tasks : Report(t)
    \/ Env
SpecHang == SeqInit /\ [][HangNext]_vars

\* The keeper service loop, and calls of executeKeeperBatch on a legacy
\* KeeperModule, against the same ledger.
BatchInit == Init /\ driver \in {"loop", "batch"}
BatchNext ==
    \/ LoopTick
    \/ LegacyStartKeeper
    \/ LegacyStopKeeper
    \/ BatchCall
    \/ \E t \in Tasks : CheckStatus(t)
    \/ \E t \in Tasks : ScanOrders(t)
    \/ \E t \in Tasks : LoopGetAllOrders(t)
    \/ \E t \in Tasks : ScanPositions(t)
    \/ \E t \in Tasks : BatchScan(t)
    \/ \E t \in Tasks : BatchPositions(t)
    \/ \E t \in Tasks, kind \in Kinds : SubmitWrite(t, kind)
    \/ \E t \in Tasks, kind \in Kinds : ConfirmWrite(t, kind)
    \/ \E t \in Tasks : Report(t)
    \/ Env
SpecBatch == BatchInit /\ [][BatchNext]_vars

====
